---- MODULE Spec2Model ----
(***************************************************************************)
(* Global-scope bookmarks of the vscode-bookmarks fork: the registry kept  *)
(* by GlobalBookmarksManager, the commands of extension.ts that mutate it, *)
(* the sticky adjustment of global bookmarks on text edits, and the        *)
(* in-file navigation function nextBookmark.                               *)
(*                                                                         *)
(* Indices are 1-based here (the code's 0-based index i is i+1); the       *)
(* code's "not found" value -1 is 0.  Line and column numbers are the      *)
(* code's own 0-based numbers.                                             *)
(***************************************************************************)
EXTENDS Integers, Sequences, FiniteSets, TLC

VARIABLES files, saved, pendingEdit, cmd, last, nav, jump, tog, batch, invocation, registry

vars == <<files, saved, pendingEdit, cmd, last, nav, jump, tog, batch, invocation, registry>>

(***************************************************************************)
(* Bounds of the model.                                                    *)
(***************************************************************************)
MaxLine == 3
MaxNewlines == 2
MaxChanges == 2
MaxSelections == 2
MaxNavLen == 3
MaxMarkers == 2
MaxCalls == 2

Lines == 0..MaxLine
Columns == {0, 1}
Labels == {"", "a"}

\* value of an optional argument that was not supplied (label?: string),
\* and of a dismissed input box
undefined == "undefined"

(***************************************************************************)
(* Sequence helpers.                                                       *)
(***************************************************************************)
Range(s) == {s[i] : i \in 1..Len(s)}

\* Array.prototype.splice(index, 1)
splice(s, index) == SubSeq(s, 1, index - 1) \o SubSeq(s, index + 1, Len(s))

\* Array.prototype.sort((a, b) => a.line - b.line): a stable sort by line,
\* computed by inserting each element after the elements not greater than it
RECURSIVE sortByLine(_)
sortByLine(bks) ==
    IF Len(bks) <= 1 THEN bks
    ELSE LET n == Len(bks)
             front == sortByLine(SubSeq(bks, 1, n - 1))
             x == bks[n]
             pos == Cardinality({i \in 1..(n - 1) : front[i].line <= x.line})
         IN  SubSeq(front, 1, pos) \o <<x>> \o SubSeq(front, pos + 1, n - 1)

LinesOf(bks) == {bks[i].line : i \in 1..Len(bks)}

StrictlyAscending(bks) == \A i \in 1..(Len(bks) - 1) : bks[i].line < bks[i + 1].line

(***************************************************************************)
(* GlobalBookmarksManager: lookups.                                        *)
(***************************************************************************)
\* indexOfBookmark: the first index whose marker is on the line
indexOfBookmark(bks, line) ==
    IF \E i \in 1..Len(bks) : bks[i].line = line
    THEN CHOOSE i \in 1..Len(bks) :
            /\ bks[i].line = line
            /\ \A j \in 1..(i - 1) : bks[j].line # line
    ELSE 0

\* updateBookmarkLine: rewrites the line in place, the array is not re-sorted
updateBookmarkLine(bks, index, newLine) == [bks EXCEPT ![index].line = newLine]

(***************************************************************************)
(* Sticky adjustment of the global bookmarks of one file.                  *)
(* A change is [startLine, startChar, endLine, newlines, blank]:           *)
(* change.range.start, change.range.end.line, the number of "\n" in        *)
(* change.text, and whether the text of line startLine of the document,    *)
(* read when the handler runs (after the edit), is empty once tabs and     *)
(* white space are removed.                                                *)
(***************************************************************************)
isAdd(change) == change.newlines > 0

isDel(change) == change.startLine < change.endLine

\* eventChar without the reset on a blank line
eventCharNoReset(change) == change.startChar

\* let eventChar = change.range.start.character; reset to 0 on a blank line
eventCharOf(change) ==
    IF change.startChar > 0 /\ change.blank THEN 0 ELSE change.startChar

\* a shift condition that leaves the marker on the edited line where it is,
\* whatever the column
shiftsMarkerStrict(bkmLine, eventLine, eventChar) == bkmLine > eventLine

\* the condition under which a marker is shifted
shiftsMarker(bkmLine, eventLine, eventChar) ==
    \/ (bkmLine > eventLine /\ eventChar > 0)
    \/ (bkmLine >= eventLine /\ eventChar = 0)

\* an isAdd branch that sets updated outside the test of the marker
stickyAddAlwaysUpdated(bks, change) ==
    LET moved(i) == shiftsMarker(bks[i].line, change.startLine, eventCharOf(change))
    IN  [bookmarks |-> [i \in 1..Len(bks) |->
                           IF moved(i)
                           THEN [bks[i] EXCEPT !.line = @ + change.newlines]
                           ELSE bks[i]],
         updated |-> TRUE]

\* the isAdd branch: every marker that qualifies moves down by the number of
\* inserted newlines
stickyAdd(bks, change) ==
    LET moved(i) == shiftsMarker(bks[i].line, change.startLine, eventCharOf(change))
    IN  [bookmarks |-> [i \in 1..Len(bks) |->
                           IF moved(i)
                           THEN [bks[i] EXCEPT !.line = @ + change.newlines]
                           ELSE bks[i]],
         updated |-> \E i \in 1..Len(bks) : moved(i)]

\* a first loop that runs up to endLine itself
RECURSIVE stickyRemoveRangeInclusive(_, _, _, _)
stickyRemoveRangeInclusive(bks, line, endLine, keepBookmarksOnLineDelete) ==
    IF line > endLine THEN [bookmarks |-> bks, updated |-> FALSE]
    ELSE LET idx == indexOfBookmark(bks, line)
             hasAfter == indexOfBookmark(bks, endLine) > 0
             after == IF idx = 0 THEN bks
                      ELSE IF keepBookmarksOnLineDelete /\ ~hasAfter
                           THEN updateBookmarkLine(bks, idx, endLine)
                           ELSE splice(bks, idx)
             rest == stickyRemoveRangeInclusive(after, line + 1, endLine,
                                                keepBookmarksOnLineDelete)
         IN  [bookmarks |-> rest.bookmarks, updated |-> (idx > 0) \/ rest.updated]

\* a first loop that, keeping markers, moves one to the line after the range
\* even when that line holds a marker
RECURSIVE stickyRemoveRangeOntoMarker(_, _, _, _)
stickyRemoveRangeOntoMarker(bks, line, endLine, keepBookmarksOnLineDelete) ==
    IF line >= endLine THEN [bookmarks |-> bks, updated |-> FALSE]
    ELSE LET idx == indexOfBookmark(bks, line)
             after == IF idx = 0 THEN bks
                      ELSE IF keepBookmarksOnLineDelete
                           THEN updateBookmarkLine(bks, idx, endLine)
                           ELSE splice(bks, idx)
             rest == stickyRemoveRangeOntoMarker(after, line + 1, endLine,
                                                 keepBookmarksOnLineDelete)
         IN  [bookmarks |-> rest.bookmarks, updated |-> (idx > 0) \/ rest.updated]

\* first loop of the isDel branch, from line up to endLine - 1
RECURSIVE stickyRemoveRange(_, _, _, _)
stickyRemoveRange(bks, line, endLine, keepBookmarksOnLineDelete) ==
    IF line >= endLine THEN [bookmarks |-> bks, updated |-> FALSE]
    ELSE LET idx == indexOfBookmark(bks, line)
             hasAfter == indexOfBookmark(bks, endLine) > 0
             after == IF idx = 0 THEN bks
                      ELSE IF keepBookmarksOnLineDelete /\ ~hasAfter
                           THEN updateBookmarkLine(bks, idx, endLine)
                           ELSE splice(bks, idx)
             rest == stickyRemoveRange(after, line + 1, endLine, keepBookmarksOnLineDelete)
         IN  [bookmarks |-> rest.bookmarks, updated |-> (idx > 0) \/ rest.updated]

\* second loop of the isDel branch: the markers after the range move up
stickyShiftUp(bks, change) ==
    LET numberOfLinesDeleted == change.endLine - change.startLine
        moved(i) == shiftsMarker(bks[i].line, change.startLine, eventCharOf(change))
    IN  [bookmarks |-> [i \in 1..Len(bks) |->
                           IF moved(i)
                           THEN [bks[i] EXCEPT !.line = @ - numberOfLinesDeleted]
                           ELSE bks[i]],
         updated |-> \E i \in 1..Len(bks) : moved(i)]

\* an isDel branch that does not honour keepBookmarksOnLineDelete
stickyDelNeverKeeps(bks, change, keepBookmarksOnLineDelete) ==
    LET removed == stickyRemoveRange(bks, change.startLine, change.endLine, FALSE)
        shifted == stickyShiftUp(removed.bookmarks, change)
    IN  [bookmarks |-> shifted.bookmarks,
         updated |-> removed.updated \/ shifted.updated]

stickyDel(bks, change, keepBookmarksOnLineDelete) ==
    LET removed == stickyRemoveRange(bks, change.startLine, change.endLine,
                                     keepBookmarksOnLineDelete)
        shifted == stickyShiftUp(removed.bookmarks, change)
    IN  [bookmarks |-> shifted.bookmarks,
         updated |-> removed.updated \/ shifted.updated]

\* a loop body whose isAdd branch does not set updated
stickyChangeForgetsAdd(bks, change, keepBookmarksOnLineDelete) ==
    IF ~isAdd(change) /\ ~isDel(change) THEN [bookmarks |-> bks, updated |-> FALSE]
    ELSE LET added == IF isAdd(change) THEN stickyAdd(bks, change)
                      ELSE [bookmarks |-> bks, updated |-> FALSE]
             deleted == IF isDel(change)
                        THEN stickyDel(added.bookmarks, change, keepBookmarksOnLineDelete)
                        ELSE [bookmarks |-> added.bookmarks, updated |-> FALSE]
         IN  [bookmarks |-> deleted.bookmarks, updated |-> deleted.updated]

\* the body of the loop over event.contentChanges: the isAdd branch runs
\* first, the isDel branch second, on the same change
stickyChange(bks, change, keepBookmarksOnLineDelete) ==
    IF ~isAdd(change) /\ ~isDel(change) THEN [bookmarks |-> bks, updated |-> FALSE]
    ELSE LET added == IF isAdd(change) THEN stickyAdd(bks, change)
                      ELSE [bookmarks |-> bks, updated |-> FALSE]
             deleted == IF isDel(change)
                        THEN stickyDel(added.bookmarks, change, keepBookmarksOnLineDelete)
                        ELSE [bookmarks |-> added.bookmarks, updated |-> FALSE]
         IN  [bookmarks |-> deleted.bookmarks,
              updated |-> added.updated \/ deleted.updated]

\* a loop body that notifies the listeners after each change
stickyFiredEachChange(bksAfterChange) == <<bksAfterChange>>

\* what the listeners of the manager are shown while one change is applied:
\* updateBookmarkLine and the splice of the sticky engine fire no event
stickyFired(bksAfterChange) == << >>

\* updateStickyGlobalBookmarks: all changes of the event, in order.  fired is
\* the sequence of store contents shown to listeners during the loop.
RECURSIVE updateStickyGlobalBookmarks(_, _, _)
updateStickyGlobalBookmarks(bks, contentChanges, keepBookmarksOnLineDelete) ==
    IF contentChanges = << >>
    THEN [bookmarks |-> bks, updated |-> FALSE, fired |-> << >>]
    ELSE LET one == stickyChange(bks, Head(contentChanges), keepBookmarksOnLineDelete)
             rest == updateStickyGlobalBookmarks(one.bookmarks, Tail(contentChanges),
                                                 keepBookmarksOnLineDelete)
         IN  [bookmarks |-> rest.bookmarks,
              updated |-> one.updated \/ rest.updated,
              fired |-> stickyFired(one.bookmarks) \o rest.fired]

(***************************************************************************)
(* GlobalBookmarksManager: the registry _files, a sequence of              *)
(* [path, bookmarks], and the blob under the key globalBookmarks.          *)
(* A path is the sequence of its characters.                               *)
(***************************************************************************)
\* the uri the commands and edits of the model are given: one document,
\* named with a doubled slash
RawPaths == {<<"/", "/", "f">>}

\* filePath.replace(/\\/g, "/")
replaceBackslashes(p) == [i \in 1..Len(p) |-> IF p[i] = "\\" THEN "/" ELSE p[i]]

\* .replace(/\/+/g, "/")
RECURSIVE collapseSlashes(_)
collapseSlashes(p) ==
    IF Len(p) <= 1 THEN p
    ELSE LET rest == collapseSlashes(Tail(p))
         IN  IF p[1] = "/" /\ rest[1] = "/" THEN rest ELSE <<p[1]>> \o rest

\* normalizePath; the paths of RawPaths hold no upper-case letter, so the
\* toLowerCase of the win32 branch leaves them as they are
normalizePath(p) == collapseSlashes(replaceBackslashes(p))

\* this._files.find((f) => f.path === filePath), as an index
fileIndex(fs, path) ==
    IF \E i \in 1..Len(fs) : fs[i].path = path
    THEN CHOOSE i \in 1..Len(fs) :
            /\ fs[i].path = path
            /\ \A j \in 1..(i - 1) : fs[j].path # path
    ELSE 0

\* fromUri, as the index of the file (0: undefined)
fromUri(fs, uri) == fileIndex(fs, normalizePath(uri))

\* getOrCreateFile: the registry with the file present
getOrCreateFile(fs, uri) ==
    IF fromUri(fs, uri) > 0 THEN fs
    ELSE Append(fs, [path |-> normalizePath(uri), bookmarks |-> << >>])

\* getBookmarksForFile
getBookmarksForFile(fs, uri) ==
    IF fromUri(fs, uri) > 0 THEN fs[fromUri(fs, uri)].bookmarks ELSE << >>

\* countBookmarks
RECURSIVE countBookmarks(_)
countBookmarks(fs) ==
    IF fs = << >> THEN 0 ELSE Len(Head(fs).bookmarks) + countBookmarks(Tail(fs))

\* a save that writes every file of the registry, with or without markers
RECURSIVE toSaveUnfiltered(_)
toSaveUnfiltered(fs) ==
    IF fs = << >> THEN << >>
    ELSE <<[path |-> normalizePath(Head(fs).path), bookmarks |-> Head(fs).bookmarks]>>
             \o toSaveUnfiltered(Tail(fs))

\* a filter of save() that asks for more than one marker
RECURSIVE toSaveMoreThanOne(_)
toSaveMoreThanOne(fs) ==
    IF fs = << >> THEN << >>
    ELSE LET f == Head(fs)
         IN  IF Len(f.bookmarks) > 1
             THEN <<[path |-> normalizePath(f.path), bookmarks |-> f.bookmarks]>>
                      \o toSaveMoreThanOne(Tail(fs))
             ELSE toSaveMoreThanOne(Tail(fs))

\* the value save() hands to globalState.update: the files that have a
\* marker, paths normalised
RECURSIVE toSave(_)
toSave(fs) ==
    IF fs = << >> THEN << >>
    ELSE LET f == Head(fs)
         IN  IF Len(f.bookmarks) > 0
             THEN <<[path |-> normalizePath(f.path), bookmarks |-> f.bookmarks]>>
                      \o toSave(Tail(fs))
             ELSE toSave(Tail(fs))

\* the globalState entry: absent until the first save, then the saved value
NoBlob == [present |-> FALSE, files |-> << >>]

\* save(): globalState.update(GLOBAL_BOOKMARKS_KEY, JSON.stringify(toSave))
save(fs) == [present |-> TRUE, files |-> toSave(fs)]

\* an addBookmark that stores the label argument as it came
addBookmarkKeepsUndefined(fs, uri, line, column, label) ==
    LET withFile == getOrCreateFile(fs, uri)
        idx == fromUri(withFile, uri)
        pushed == Append(withFile[idx].bookmarks,
                         [line |-> line, column |-> column, label |-> label])
    IN  [withFile EXCEPT ![idx].bookmarks = sortByLine(pushed)]

\* addBookmark up to its await: push, then sort by line
addBookmark(fs, uri, line, column, label) ==
    LET withFile == getOrCreateFile(fs, uri)
        idx == fromUri(withFile, uri)
        pushed == Append(withFile[idx].bookmarks,
                         [line |-> line, column |-> column,
                          label |-> IF label = undefined THEN "" ELSE label])
    IN  [withFile EXCEPT ![idx].bookmarks = sortByLine(pushed)]

\* a removeBookmark that drops the last marker of the file (pop)
removeBookmarkLast(fs, fileIdx, index) ==
    [fs EXCEPT ![fileIdx].bookmarks = SubSeq(@, 1, Len(@) - 1)]

\* removeBookmark
removeBookmark(fs, fileIdx, index) ==
    [fs EXCEPT ![fileIdx].bookmarks = splice(@, index)]

\* a toggle that leaves a line that holds a marker as it is
toggleKeepsMarked(fs, uri, line, column, label) ==
    LET withFile == getOrCreateFile(fs, uri)
        fileIdx == fromUri(withFile, uri)
        index == indexOfBookmark(withFile[fileIdx].bookmarks, line)
    IN  IF index > 0
        THEN [files |-> withFile, result |-> FALSE, suspended |-> FALSE]
        ELSE [files |-> addBookmark(withFile, uri, line, column, label),
              result |-> TRUE, suspended |-> TRUE]

\* a toggle that removes the marker of a marked line whatever the label
toggleIgnoresLabel(fs, uri, line, column, label) ==
    LET withFile == getOrCreateFile(fs, uri)
        fileIdx == fromUri(withFile, uri)
        index == indexOfBookmark(withFile[fileIdx].bookmarks, line)
    IN  IF index > 0
        THEN [files |-> removeBookmark(withFile, fileIdx, index),
              result |-> FALSE, suspended |-> FALSE]
        ELSE [files |-> addBookmark(withFile, uri, line, column, label),
              result |-> TRUE, suspended |-> TRUE]

\* toggle up to its first await: result is the value the promise resolves
\* to, suspended tells that the add branch awaits the document before it
\* saves and fires
toggle(fs, uri, line, column, label) ==
    LET withFile == getOrCreateFile(fs, uri)
        fileIdx == fromUri(withFile, uri)
        index == indexOfBookmark(withFile[fileIdx].bookmarks, line)
    IN  IF index > 0
        THEN IF label # undefined /\ label # ""
             THEN [files |-> [withFile EXCEPT ![fileIdx].bookmarks[index].label = label],
                   result |-> FALSE, suspended |-> FALSE]
             ELSE [files |-> removeBookmark(withFile, fileIdx, index),
                   result |-> FALSE, suspended |-> FALSE]
        ELSE [files |-> addBookmark(withFile, uri, line, column, label),
              result |-> TRUE, suspended |-> TRUE]

\* a clearFile that empties the list of every file
clearFileOfEveryFile(fs, filePath) ==
    [i \in 1..Len(fs) |-> [fs[i] EXCEPT !.bookmarks = << >>]]

\* clearFile
clearFile(fs, filePath) ==
    LET idx == fileIndex(fs, normalizePath(filePath))
    IN  IF idx > 0 THEN [fs EXCEPT ![idx].bookmarks = << >>] ELSE fs

(***************************************************************************)
(* Commands of extension.ts.  A command that awaits (the input box, or the *)
(* document that addBookmark opens for its preview) is suspended in cmd or *)
(* pendingEdit; other events run before it is resumed.  The model lets one  *)
(* command be suspended at a time.                                         *)
(***************************************************************************)
IdleCmd ==
    [pc |-> "idle", kind |-> "", uri |-> << >>, sels |-> << >>,
     toggledLines |-> << >>, forceState |-> undefined, label |-> undefined,
     viaToggle |-> FALSE, oldLabel |-> ""]

NoEdit ==
    [pc |-> "idle", path |-> << >>, index |-> 0, line |-> 0, column |-> 0,
     orphan |-> FALSE]

NoneSuspended == cmd.pc = "idle" /\ pendingEdit.pc = "idle"

\* the record of one call of an operation of the program made on its own:
\* its name, its arguments and what it returned or left behind
NoInvocation == [op |-> "none"]

\* the project registry before activate has loaded anything: controllers is
\* the empty list and activeController is undefined (0); a controller is
\* known by the number of the load that built it and by its workspace
\* folder (0 when it has none)
NoRegistry ==
    [pc |-> "inactive", controllers |-> << >>, activeController |-> 0, loaded |-> 0,
     reloads |-> 0, workspaceFolders |-> 0, saveBookmarksInProject |-> FALSE,
     activeTextEditor |-> [some |-> FALSE, folder |-> 0]]

\* the editor state a command reads at its start (document, selections and
\* the multicursor.toggleMode setting), with the store of the document then
NoBatch ==
    [uri |-> << >>, selections |-> << >>, toggleMode |-> "", pre |-> << >>]

\* the loop over the selections of toggleGlobal / toggleGlobalLabeled, from
\* the selection at the head of sels up to the next await that suspends the
\* command (an add) or to the end of the loop
RECURSIVE runSelections(_, _, _, _, _, _, _)
runSelections(fs, sv, uri, sels, toggledLines, forceState, label) ==
    IF sels = << >>
    THEN [files |-> fs, saved |-> sv, sels |-> << >>, toggledLines |-> toggledLines,
          suspended |-> FALSE, viaToggle |-> FALSE]
    ELSE LET sel == Head(sels)
             line == sel.line
             seen == Append(toggledLines, line)
             fileIdx == fromUri(fs, uri)
             index == IF fileIdx > 0 THEN indexOfBookmark(fs[fileIdx].bookmarks, line) ELSE 0
         IN  IF line \in Range(toggledLines)
             THEN runSelections(fs, sv, uri, Tail(sels), toggledLines, forceState, label)
             ELSE IF forceState = "on"
             THEN IF index = 0
                  THEN [files |-> addBookmark(fs, uri, line, sel.character, undefined),
                        saved |-> sv, sels |-> Tail(sels), toggledLines |-> seen,
                        suspended |-> TRUE, viaToggle |-> FALSE]
                  ELSE runSelections(fs, sv, uri, Tail(sels), seen, forceState, label)
             ELSE IF forceState = "off"
             THEN runSelections(IF index > 0 THEN removeBookmark(fs, fileIdx, index) ELSE fs,
                                sv, uri, Tail(sels), seen, forceState, label)
             ELSE LET t == toggle(fs, uri, line, sel.character, label)
                  IN  IF t.suspended
                      THEN [files |-> t.files, saved |-> sv, sels |-> Tail(sels),
                            toggledLines |-> seen, suspended |-> TRUE, viaToggle |-> TRUE]
                      ELSE runSelections(t.files, save(t.files), uri, Tail(sels), seen,
                                         forceState, label)

\* the state after a run of the loop without the closing notifyAndSave
AfterRunNoSave(r, kind, uri, forceState, label) ==
    /\ files' = r.files
    /\ saved' = r.saved
    /\ IF r.suspended
       THEN cmd' = [IdleCmd EXCEPT !.pc = "awaitAdd", !.kind = kind, !.uri = uri,
                                   !.sels = r.sels, !.toggledLines = r.toggledLines,
                                   !.forceState = forceState, !.label = label,
                                   !.viaToggle = r.viaToggle]
       ELSE cmd' = IdleCmd

\* the state after a run of the loop: suspended in cmd, or finished, with the
\* closing notifyAndSave of the toggle commands
AfterRun(r, kind, uri, forceState, label) ==
    /\ files' = r.files
    /\ IF r.suspended
       THEN /\ saved' = r.saved
            /\ cmd' = [IdleCmd EXCEPT !.pc = "awaitAdd", !.kind = kind, !.uri = uri,
                                      !.sels = r.sels, !.toggledLines = r.toggledLines,
                                      !.forceState = forceState, !.label = label,
                                      !.viaToggle = r.viaToggle]
       ELSE /\ saved' = IF kind = "deleteGlobalBookmark" THEN r.saved ELSE save(r.files)
            /\ cmd' = IdleCmd

Selection == [line : Lines, character : Columns]

SelectionLists ==
    UNION {[1..n -> Selection] : n \in 1..MaxSelections}

SingleSelections == [1..1 -> Selection]

\* several cursors, each at the start of its line
BatchSelections ==
    {s \in SelectionLists : Len(s) > 1 /\ \A i \in 1..Len(s) : s[i].character = 0}

\* a variant of decideForceState that removes as soon as one selected line
\* holds a marker
decideForceStateAny(fs, uri, selections, toggleMode) ==
    LET fileIdx == fromUri(fs, uri)
        someBookmarked ==
            /\ fileIdx > 0
            /\ \E i \in 1..Len(selections) :
                   indexOfBookmark(fs[fileIdx].bookmarks, selections[i].line) > 0
    IN  IF toggleMode = "allLinesAtOnce" /\ Len(selections) > 1
        THEN IF someBookmarked THEN "off" ELSE "on"
        ELSE undefined

\* the toggle state of bookmarks.toggleGlobal, decided before its loop
decideForceState(fs, uri, selections, toggleMode) ==
    LET fileIdx == fromUri(fs, uri)
        allBookmarked ==
            /\ fileIdx > 0
            /\ \A i \in 1..Len(selections) :
                   indexOfBookmark(fs[fileIdx].bookmarks, selections[i].line) > 0
    IN  IF toggleMode = "allLinesAtOnce" /\ Len(selections) > 1
        THEN IF allBookmarked THEN "off" ELSE "on"
        ELSE undefined

\* bookmarks.toggleGlobal
ToggleGlobal(uri, selections, toggleMode) ==
    /\ NoneSuspended
    /\ LET forceState == decideForceState(files, uri, selections, toggleMode)
       IN  AfterRun(runSelections(files, saved, uri, selections, << >>, forceState, undefined),
                    "toggleGlobal", uri, forceState, undefined)
    /\ UNCHANGED <<pendingEdit, last, nav, jump, tog, batch, invocation, registry>>

\* bookmarks.toggleGlobalLabeled, up to the loop or to the input box
ToggleGlobalLabeled(uri, selections, suggestion, useSelectionWhenAvailable) ==
    /\ NoneSuspended
    /\ LET firstLine == selections[1].line
           existingFile == fromUri(files, uri)
           existingIndex == IF existingFile > 0
                            THEN indexOfBookmark(files[existingFile].bookmarks, firstLine)
                            ELSE 0
           oldLabel == IF existingIndex > 0
                       THEN files[existingFile].bookmarks[existingIndex].label
                       ELSE ""
       IN  IF suggestion # "" /\ useSelectionWhenAvailable
           THEN AfterRun(runSelections(files, saved, uri, selections, << >>, undefined,
                                       suggestion),
                         "toggleGlobalLabeled", uri, undefined, suggestion)
           ELSE /\ cmd' = [IdleCmd EXCEPT !.pc = "input", !.kind = "toggleGlobalLabeled",
                                          !.uri = uri, !.sels = selections,
                                          !.oldLabel = oldLabel]
                /\ UNCHANGED <<files, saved>>
    /\ UNCHANGED <<pendingEdit, last, nav, jump, tog, batch, invocation, registry>>

\* bookmarks.toggleGlobalLabeled, from the answer of the input box
ToggleGlobalLabeledInput(label) ==
    /\ cmd.pc = "input"
    /\ IF label = undefined \/ (label = "" /\ cmd.oldLabel = "")
       THEN /\ cmd' = IdleCmd
            /\ UNCHANGED <<files, saved>>
       ELSE AfterRun(runSelections(files, saved, cmd.uri, cmd.sels, << >>, undefined, label),
                     "toggleGlobalLabeled", cmd.uri, undefined, label)
    /\ UNCHANGED <<pendingEdit, last, nav, jump, tog, batch, invocation, registry>>

\* _bookmarks.deleteGlobalBookmark: toggle without a label on the node's line
DeleteGlobalBookmark(filePath, line, column) ==
    /\ NoneSuspended
    /\ AfterRun(runSelections(files, saved, filePath,
                              <<[line |-> line, character |-> column]>>,
                              << >>, undefined, undefined),
                "deleteGlobalBookmark", filePath, undefined, undefined)
    /\ UNCHANGED <<pendingEdit, last, nav, jump, tog, batch, invocation, registry>>

\* the continuation of a command suspended in addBookmark: toggle saves and
\* fires after the add, then the loop goes on
ResumeAfterAdd ==
    /\ cmd.pc = "awaitAdd"
    /\ AfterRun(runSelections(files, IF cmd.viaToggle THEN save(files) ELSE saved,
                              cmd.uri, cmd.sels, cmd.toggledLines, cmd.forceState,
                              cmd.label),
                cmd.kind, cmd.uri, cmd.forceState, cmd.label)
    /\ UNCHANGED <<pendingEdit, last, nav, jump, tog, batch, invocation, registry>>

\* _bookmarks.editGlobalLabel, up to the input box: the file object and the
\* index of the node's marker are resolved here
EditGlobalLabel(filePath, line, column) ==
    /\ NoneSuspended
    /\ fromUri(files, filePath) > 0
    /\ indexOfBookmark(files[fromUri(files, filePath)].bookmarks, line) > 0
    /\ pendingEdit' =
           [pc |-> "input", path |-> normalizePath(filePath),
            index |-> indexOfBookmark(files[fromUri(files, filePath)].bookmarks, line),
            line |-> line, column |-> column, orphan |-> FALSE]
    /\ UNCHANGED <<files, saved, cmd, last, nav, jump, tog, batch, invocation, registry>>

\* updateLabel on a file of the registry: label, line and column of the
\* marker at index are overwritten
updateLabel(fs, fileIdx, index, line, column, newLabel) ==
    [fs EXCEPT ![fileIdx].bookmarks[index] =
                   [line |-> line, column |-> column, label |-> newLabel]]

\* _bookmarks.editGlobalLabel, from the answer of the input box.  The file
\* object may have left the registry (clearAll): updateLabel then writes to
\* the orphan and saves the registry.  An index past the end of the array
\* makes updateLabel throw before it changes anything.
EditGlobalLabelInput(newLabel) ==
    /\ pendingEdit.pc = "input"
    /\ pendingEdit' = NoEdit
    /\ LET fileIdx == fileIndex(files, pendingEdit.path)
       IN  IF newLabel = undefined
           THEN UNCHANGED <<files, saved>>
           ELSE IF pendingEdit.orphan
           THEN /\ saved' = save(files)
                /\ UNCHANGED files
           ELSE IF pendingEdit.index > Len(files[fileIdx].bookmarks)
           THEN UNCHANGED <<files, saved>>
           ELSE /\ files' = updateLabel(files, fileIdx, pendingEdit.index,
                                        pendingEdit.line, pendingEdit.column, newLabel)
                /\ saved' = save(files')
    /\ UNCHANGED <<cmd, last, nav, jump, tog, batch, invocation, registry>>

\* _bookmarks.clearGlobalFromFile
ClearGlobalFromFile(filePath) ==
    /\ files' = clearFile(files, filePath)
    /\ saved' = save(files')
    /\ UNCHANGED <<pendingEdit, cmd, last, nav, jump, tog, batch, invocation, registry>>

\* bookmarks.clearAllGlobals: the registry becomes a new empty array, a file
\* object held by a suspended editGlobalLabel is no longer part of it
ClearAllGlobals ==
    /\ files' = << >>
    /\ saved' = save(files')
    /\ pendingEdit' = IF pendingEdit.pc = "input"
                      THEN [pendingEdit EXCEPT !.orphan = TRUE]
                      ELSE pendingEdit
    /\ UNCHANGED <<cmd, last, nav, jump, tog, batch, invocation, registry>>

(***************************************************************************)
(* The text-change handler (onDidChangeTextDocument), global part.         *)
(***************************************************************************)
Change ==
    {c \in [startLine : Lines, startChar : Columns, endLine : Lines,
            newlines : 0..MaxNewlines, blank : BOOLEAN] :
        /\ c.startLine <= c.endLine
        /\ (c.startChar = 0 => ~c.blank)}

\* the changes of one event: ranges of the document before the edit that do
\* not overlap, reported from the end of the document to its start
ChangeLists(maxLen) ==
    {cs \in UNION {[1..n -> Change] : n \in 0..maxLen} :
        \A i \in 1..Len(cs) : \A j \in (i + 1)..Len(cs) :
            cs[j].endLine <= cs[i].startLine}

\* events of at most one change; a change on a blank line acts on the store
\* as the same change at column 0 does
SingleChanges == {cs \in ChangeLists(1) : \A i \in 1..Len(cs) : ~cs[i].blank}

EventChanges == ChangeLists(MaxChanges)

NoLast ==
    [op |-> "none", pre |-> << >>, changes |-> << >>, keep |-> FALSE,
     post |-> << >>, updated |-> FALSE, seen |-> << >>]

\* the handler for an edit of the active editor's document whose file has
\* global bookmarks: sticky adjustment, notifyAndSave when it reports an
\* update, then updateDecorations.  seen lists, in order, what each reader
\* of the store was shown during the handler.  With record, the details of
\* the event are kept in last.
OnDidChangeTextDocument(uri, contentChanges, keepBookmarksOnLineDelete, record) ==
    LET fileIdx == fromUri(files, uri)
        pre == files[fileIdx].bookmarks
        res == updateStickyGlobalBookmarks(pre, contentChanges, keepBookmarksOnLineDelete)
        post == res.bookmarks
        shown(reader) == [reader |-> reader, bookmarks |-> post]
        seen == [i \in 1..Len(res.fired) |->
                    [reader |-> "listener", bookmarks |-> res.fired[i]]]
                \o (IF res.updated THEN <<shown("save"), shown("onDidChange")>> ELSE << >>)
                \o <<shown("updateDecorations")>>
    IN  /\ fileIdx > 0
        /\ Len(pre) > 0
        /\ files' = [files EXCEPT ![fileIdx].bookmarks = post]
        /\ saved' = IF res.updated THEN save(files') ELSE saved
        /\ last' = IF record
                   THEN [op |-> "sticky", pre |-> pre, changes |-> contentChanges,
                         keep |-> keepBookmarksOnLineDelete, post |-> post,
                         updated |-> res.updated, seen |-> seen]
                   ELSE last
        /\ UNCHANGED <<pendingEdit, cmd, nav, jump, tog, batch, invocation, registry>>

(***************************************************************************)
(* Navigation inside one file: nextBookmark.                               *)
(***************************************************************************)
NO_BOOKMARKS == -1
NO_MORE_BOOKMARKS == -2
NO_BOOKMARKS_BEFORE == -3
NO_BOOKMARKS_AFTER == -4

\* the two kinds of value the promise resolves to: a number or a Position
Number(n) == [isNumber |-> TRUE, number |-> n, line |-> 0, character |-> 0]

Position(line, character) ==
    [isNumber |-> FALSE, number |-> 0, line |-> line, character |-> character]

\* nextBookmark with one of its steps changed: the backward scan run from
\* the front of the list ("backwardFromFront"), wrapNavigation tested before
\* navigateThroughAllFiles ("wrapFirst"), or the comparisons with the cursor
\* line not strict ("notStrict")
nextBookmarkVariant(bookmarks, currentPosition, direction, navigateThroughAllFiles, wrapNavigation, variant) ==
    LET beyond(a, b) == IF variant = "notStrict" THEN a >= b ELSE a > b
        after == {i \in 1..Len(bookmarks) : beyond(bookmarks[i].line, currentPosition.line)}
        before == {i \in 1..Len(bookmarks) : beyond(currentPosition.line, bookmarks[i].line)}
        first == CHOOSE i \in after : \A j \in after : i <= j
        lastOne == IF variant = "backwardFromFront"
                   THEN CHOOSE i \in before : \A j \in before : i <= j
                   ELSE CHOOSE i \in before : \A j \in before : i >= j
        n == Len(bookmarks)
        exhausted(sentinel, wrapTo) ==
            IF variant = "wrapFirst"
            THEN IF ~wrapNavigation THEN Number(sentinel)
                 ELSE IF navigateThroughAllFiles THEN Number(NO_MORE_BOOKMARKS)
                 ELSE Position(bookmarks[wrapTo].line, bookmarks[wrapTo].column)
            ELSE IF navigateThroughAllFiles THEN Number(NO_MORE_BOOKMARKS)
                 ELSE IF ~wrapNavigation THEN Number(sentinel)
                 ELSE Position(bookmarks[wrapTo].line, bookmarks[wrapTo].column)
    IN  IF n = 0
        THEN IF navigateThroughAllFiles THEN Number(NO_BOOKMARKS) ELSE currentPosition
        ELSE IF direction = "Forward"
        THEN IF after = {} THEN exhausted(NO_BOOKMARKS_AFTER, 1)
             ELSE Position(bookmarks[first].line, bookmarks[first].column)
        ELSE IF before = {} THEN exhausted(NO_BOOKMARKS_BEFORE, n)
             ELSE Position(bookmarks[lastOne].line, bookmarks[lastOne].column)

nextBookmarkBackwardFromFront(bookmarks, currentPosition, direction, navigateThroughAllFiles, wrapNavigation) ==
    nextBookmarkVariant(bookmarks, currentPosition, direction, navigateThroughAllFiles,
                        wrapNavigation, "backwardFromFront")

nextBookmarkWrapFirst(bookmarks, currentPosition, direction, navigateThroughAllFiles, wrapNavigation) ==
    nextBookmarkVariant(bookmarks, currentPosition, direction, navigateThroughAllFiles,
                        wrapNavigation, "wrapFirst")

nextBookmarkNotStrict(bookmarks, currentPosition, direction, navigateThroughAllFiles, wrapNavigation) ==
    nextBookmarkVariant(bookmarks, currentPosition, direction, navigateThroughAllFiles,
                        wrapNavigation, "notStrict")

\* nextBookmark wrapping to the near end of the list: to the last marker
\* when a forward scan is exhausted, to the first when a backward scan is
nextBookmarkWrapToNearEnd(bookmarks, currentPosition, direction, navigateThroughAllFiles, wrapNavigation) ==
    LET after == {i \in 1..Len(bookmarks) : bookmarks[i].line > currentPosition.line}
        before == {i \in 1..Len(bookmarks) : bookmarks[i].line < currentPosition.line}
        first == CHOOSE i \in after : \A j \in after : i <= j
        lastOne == CHOOSE i \in before : \A j \in before : i >= j
        n == Len(bookmarks)
    IN  IF n = 0
        THEN IF navigateThroughAllFiles THEN Number(NO_BOOKMARKS) ELSE currentPosition
        ELSE IF direction = "Forward"
        THEN IF after = {}
             THEN IF navigateThroughAllFiles THEN Number(NO_MORE_BOOKMARKS)
                  ELSE IF ~wrapNavigation THEN Number(NO_BOOKMARKS_AFTER)
                  ELSE Position(bookmarks[n].line, bookmarks[n].column)
             ELSE Position(bookmarks[first].line, bookmarks[first].column)
        ELSE IF before = {}
             THEN IF navigateThroughAllFiles THEN Number(NO_MORE_BOOKMARKS)
                  ELSE IF ~wrapNavigation THEN Number(NO_BOOKMARKS_BEFORE)
                  ELSE Position(bookmarks[1].line, bookmarks[1].column)
             ELSE Position(bookmarks[lastOne].line, bookmarks[lastOne].column)

\* nextBookmark without the test of the empty list
nextBookmarkNoEmptyCheck(bookmarks, currentPosition, direction, navigateThroughAllFiles, wrapNavigation) ==
    LET after == {i \in 1..Len(bookmarks) : bookmarks[i].line > currentPosition.line}
        before == {i \in 1..Len(bookmarks) : bookmarks[i].line < currentPosition.line}
        first == CHOOSE i \in after : \A j \in after : i <= j
        lastOne == CHOOSE i \in before : \A j \in before : i >= j
        n == Len(bookmarks)
    IN  IF direction = "Forward"
        THEN IF after = {}
             THEN IF navigateThroughAllFiles THEN Number(NO_MORE_BOOKMARKS)
                  ELSE IF ~wrapNavigation \/ n = 0 THEN Number(NO_BOOKMARKS_AFTER)
                  ELSE Position(bookmarks[1].line, bookmarks[1].column)
             ELSE Position(bookmarks[first].line, bookmarks[first].column)
        ELSE IF before = {}
             THEN IF navigateThroughAllFiles THEN Number(NO_MORE_BOOKMARKS)
                  ELSE IF ~wrapNavigation \/ n = 0 THEN Number(NO_BOOKMARKS_BEFORE)
                  ELSE Position(bookmarks[n].line, bookmarks[n].column)
             ELSE Position(bookmarks[lastOne].line, bookmarks[lastOne].column)

nextBookmark(bookmarks, currentPosition, direction, navigateThroughAllFiles, wrapNavigation) ==
    LET after == {i \in 1..Len(bookmarks) : bookmarks[i].line > currentPosition.line}
        before == {i \in 1..Len(bookmarks) : bookmarks[i].line < currentPosition.line}
        first == CHOOSE i \in after : \A j \in after : i <= j
        lastOne == CHOOSE i \in before : \A j \in before : i >= j
        n == Len(bookmarks)
    IN  IF n = 0
        THEN IF navigateThroughAllFiles THEN Number(NO_BOOKMARKS) ELSE currentPosition
        ELSE IF direction = "Forward"
        THEN IF after = {}
             THEN IF navigateThroughAllFiles THEN Number(NO_MORE_BOOKMARKS)
                  ELSE IF ~wrapNavigation THEN Number(NO_BOOKMARKS_AFTER)
                  ELSE Position(bookmarks[1].line, bookmarks[1].column)
             ELSE Position(bookmarks[first].line, bookmarks[first].column)
        ELSE IF before = {}
             THEN IF navigateThroughAllFiles THEN Number(NO_MORE_BOOKMARKS)
                  ELSE IF ~wrapNavigation THEN Number(NO_BOOKMARKS_BEFORE)
                  ELSE Position(bookmarks[n].line, bookmarks[n].column)
             ELSE Position(bookmarks[lastOne].line, bookmarks[lastOne].column)

NoNav ==
    [called |-> FALSE, bookmarks |-> << >>, currentPosition |-> Position(0, 0),
     direction |-> "Forward", navigateThroughAllFiles |-> TRUE,
     wrapNavigation |-> TRUE, result |-> Number(0)]

\* a call of nextBookmark on the request held in nav
NextBookmark ==
    /\ ~nav.called
    /\ nav' = [nav EXCEPT !.called = TRUE,
                          !.result = nextBookmark(nav.bookmarks, nav.currentPosition,
                                                  nav.direction,
                                                  nav.navigateThroughAllFiles,
                                                  nav.wrapNavigation)]
    /\ UNCHANGED <<files, saved, pendingEdit, cmd, last, jump, tog, batch, invocation, registry>>

(***************************************************************************)
(* Calls of GlobalBookmarksManager.toggle, one after the other: tog keeps  *)
(* for each call its arguments, the markers of the file and the saved blob *)
(* before it, the value it resolved to, and the markers and the blob after *)
(* it returned.                                                            *)
(***************************************************************************)
NoCall ==
    [line |-> 0, column |-> 0, label |-> undefined, pre |-> << >>, preSaved |-> NoBlob,
     result |-> FALSE, post |-> << >>, postSaved |-> NoBlob]

NoTog == [pc |-> "idle", uri |-> << >>, pending |-> NoCall, calls |-> << >>]

\* toggle, from the call to its first await (the add branch) or to its return
ToggleCall(uri, line, column, label) ==
    /\ tog.pc = "idle"
    /\ Len(tog.calls) < MaxCalls
    /\ LET t == toggle(files, uri, line, column, label)
           call == [NoCall EXCEPT !.line = line, !.column = column, !.label = label,
                                  !.pre = getBookmarksForFile(files, uri),
                                  !.preSaved = saved, !.result = t.result]
       IN  /\ files' = t.files
           /\ IF t.suspended
              THEN /\ saved' = saved
                   /\ tog' = [tog EXCEPT !.pc = "awaitAdd", !.uri = uri, !.pending = call]
              ELSE /\ saved' = save(t.files)
                   /\ tog' = [tog EXCEPT !.calls =
                                 Append(@, [call EXCEPT
                                               !.post = getBookmarksForFile(t.files, uri),
                                               !.postSaved = save(t.files)])]
    /\ UNCHANGED <<pendingEdit, cmd, last, nav, jump, batch, invocation, registry>>

\* the add branch of toggle after addBookmark returned: save, fire, return
ToggleReturn ==
    /\ tog.pc = "awaitAdd"
    /\ saved' = save(files)
    /\ tog' = [tog EXCEPT !.pc = "idle", !.uri = << >>, !.pending = NoCall,
                          !.calls = Append(@, [tog.pending EXCEPT
                                                  !.post = getBookmarksForFile(files, tog.uri),
                                                  !.postSaved = save(files)])]
    /\ UNCHANGED <<files, pendingEdit, cmd, last, nav, jump, batch, invocation, registry>>

(***************************************************************************)
(* jumpToNext.  The project-scoped files (Controller, File) are not part   *)
(* of the sources at hand: jump.project maps each project file to its      *)
(* markers, ascending by line, and the cross-file step                     *)
(* nextDocumentWithBookmarks answers with any project file that owns a     *)
(* marker, or with NO_MORE_BOOKMARKS.                                      *)
(***************************************************************************)
OtherFile == <<"/", "g">>

ProjectPaths == {<<"/", "f">>, OtherFile}

NoPosition == [some |-> FALSE, line |-> 0, character |-> 0]

\* revealPosition(line, column): the position the editor is moved to
revealPosition(line, column) == [some |-> TRUE, line |-> line, character |-> column]

NoJump ==
    [called |-> FALSE, project |-> [p \in ProjectPaths |-> << >>],
     activeFile |-> <<"/", "f">>, currentPosition |-> Position(0, 0),
     direction |-> "Forward", navigateThroughAllFiles |-> TRUE,
     wrapNavigation |-> TRUE, next |-> Number(0), nextDocument |-> << >>,
     shown |-> <<"/", "f">>, revealed |-> NoPosition]

\* a view of the project markers alone, as the branch without a resolved
\* uri builds it
getActiveFileBookmarksOwnOnly(projectBookmarks, fs, uri) ==
    sortByLine(projectBookmarks)

\* getActiveFileBookmarks: the markers of the active project file and of the
\* global file of the same document, merged and sorted by line
getActiveFileBookmarks(projectBookmarks, fs, uri) ==
    sortByLine(projectBookmarks \o getBookmarksForFile(fs, uri))

\* checkBookmarks: false (and a message) on the two "no more in this
\* direction" sentinels
checkBookmarks(result) ==
    ~(result = Number(NO_BOOKMARKS_BEFORE) \/ result = Number(NO_BOOKMARKS_AFTER))

\* the answers nextDocumentWithBookmarks may give: << >> stands for
\* NO_MORE_BOOKMARKS
nextDocumentWithBookmarks(project) ==
    {<< >>} \cup {p \in ProjectPaths : Len(project[p]) > 0}

\* the end of the cross-file branch: the target document is shown unless it
\* is the active one, then the marker at bookmarkIndex of activeFile, the
\* file captured when the jump started, is revealed; reading a marker of an
\* empty array throws and nothing is revealed
revealInDocument(j, nextDocument) ==
    LET activeBookmarks == j.project[j.activeFile]
        bookmarkIndex == IF j.direction = "Forward" THEN 1 ELSE Len(activeBookmarks)
    IN  [j EXCEPT !.nextDocument = nextDocument,
                  !.shown = nextDocument,
                  !.revealed = IF activeBookmarks = << >> THEN NoPosition
                               ELSE revealPosition(activeBookmarks[bookmarkIndex].line,
                                                   activeBookmarks[bookmarkIndex].column)]

\* jumpToNext(direction), the whole promise chain
JumpToNext ==
    /\ ~jump.called
    /\ LET sortedBookmarks == getActiveFileBookmarks(jump.project[jump.activeFile], files,
                                                     jump.activeFile)
           next == nextBookmark(sortedBookmarks, jump.currentPosition, jump.direction,
                                jump.navigateThroughAllFiles, jump.wrapNavigation)
           started == [jump EXCEPT !.called = TRUE, !.next = next]
       IN  IF next.isNumber
           THEN IF ~checkBookmarks(next)
                THEN jump' = started
                ELSE \E nextDocument \in nextDocumentWithBookmarks(jump.project) :
                         jump' = IF nextDocument = << >> THEN started
                                 ELSE revealInDocument(started, nextDocument)
           ELSE jump' = [started EXCEPT !.revealed = revealPosition(next.line, next.character)]
    /\ UNCHANGED <<files, saved, pendingEdit, cmd, last, nav, tog, batch, invocation, registry>>

(***************************************************************************)
(* Specifications.                                                         *)
(***************************************************************************)
\* the registry after construction, nothing saved yet
Init ==
    /\ files = << >>
    /\ saved = NoBlob
    /\ pendingEdit = NoEdit
    /\ cmd = IdleCmd
    /\ last = NoLast
    /\ nav = NoNav
    /\ jump = NoJump
    /\ tog = NoTog
    /\ batch = NoBatch
    /\ invocation = NoInvocation
    /\ registry = NoRegistry

Next ==
    \/ \E uri \in RawPaths, selections \in SingleSelections,
          toggleMode \in {"allLinesAtOnce", "eachLineIndependently"} :
           /\ ToggleGlobal(uri, selections, toggleMode)
           /\ countBookmarks(files') <= MaxMarkers
    \/ \E uri \in RawPaths, selections \in BatchSelections :
           /\ ToggleGlobal(uri, selections, "allLinesAtOnce")
           /\ countBookmarks(files') <= MaxMarkers
    \/ \E uri \in RawPaths, selections \in SingleSelections,
          suggestion \in {"", "a"}, useSelectionWhenAvailable \in BOOLEAN :
           /\ ToggleGlobalLabeled(uri, selections, suggestion, useSelectionWhenAvailable)
           /\ countBookmarks(files') <= MaxMarkers
    \/ \E label \in Labels \cup {undefined} :
           /\ ToggleGlobalLabeledInput(label)
           /\ countBookmarks(files') <= MaxMarkers
    \/ \E filePath \in RawPaths, line \in Lines, column \in Columns :
           /\ DeleteGlobalBookmark(filePath, line, column)
           /\ countBookmarks(files') <= MaxMarkers
    \/ /\ ResumeAfterAdd
       /\ countBookmarks(files') <= MaxMarkers
    \/ \E filePath \in RawPaths, line \in Lines, column \in Columns :
           EditGlobalLabel(filePath, line, column)
    \/ \E newLabel \in Labels \cup {undefined} : EditGlobalLabelInput(newLabel)
    \/ \E filePath \in RawPaths : ClearGlobalFromFile(filePath)
    \/ ClearAllGlobals
    \/ \E uri \in RawPaths, contentChanges \in SingleChanges,
          keepBookmarksOnLineDelete \in BOOLEAN :
           /\ OnDidChangeTextDocument(uri, contentChanges, keepBookmarksOnLineDelete, FALSE)
           /\ \A i \in 1..Len(files') : \A j \in 1..Len(files'[i].bookmarks) :
                  files'[i].bookmarks[j].line \in Lines

Spec == Init /\ [][Next]_vars

\* Sticky adjustment on its own: one file whose store is any strictly
\* ascending marker list, and edit events of up to MaxChanges changes.
TheFile == <<"/", "f">>

RECURSIVE AscendingSeq(_)
AscendingSeq(S) ==
    IF S = {} THEN << >>
    ELSE LET m == CHOOSE x \in S : \A y \in S : x <= y
         IN  <<m>> \o AscendingSeq(S \ {m})

\* one store per set of lines; the columns tell neighbouring markers apart
AscendingStores ==
    {[i \in 1..Len(AscendingSeq(S)) |->
         [line |-> AscendingSeq(S)[i], column |-> AscendingSeq(S)[i] % 2, label |-> ""]] :
        S \in SUBSET Lines}

InitSticky ==
    /\ \E bks \in AscendingStores :
           files = IF bks = << >> THEN << >> ELSE <<[path |-> TheFile, bookmarks |-> bks]>>
    /\ saved = save(files)
    /\ pendingEdit = NoEdit
    /\ cmd = IdleCmd
    /\ last = NoLast
    /\ nav = NoNav
    /\ jump = NoJump
    /\ tog = NoTog
    /\ batch = NoBatch
    /\ invocation = NoInvocation
    /\ registry = NoRegistry

\* one event is applied to each store
NextSticky ==
    /\ last.op = "none"
    /\ \E contentChanges \in EventChanges, keepBookmarksOnLineDelete \in BOOLEAN :
           OnDidChangeTextDocument(TheFile, contentChanges, keepBookmarksOnLineDelete, TRUE)

SpecSticky == InitSticky /\ [][NextSticky]_vars

\* one event of exactly one change is applied to each store
NextChange ==
    /\ last.op = "none"
    /\ \E change \in Change, keepBookmarksOnLineDelete \in BOOLEAN :
           OnDidChangeTextDocument(TheFile, <<change>>, keepBookmarksOnLineDelete, TRUE)

SpecChange == InitSticky /\ [][NextChange]_vars

\* nextBookmark on its own: any sorted marker list (the merged view may hold
\* two markers on one line), cursor, direction and configuration.
NavLists ==
    {bks \in UNION {[1..n -> [line : Lines, column : Columns, label : {""}]] :
                       n \in 0..MaxNavLen} :
        \A i \in 1..(Len(bks) - 1) : bks[i].line <= bks[i + 1].line}

InitNav ==
    /\ files = << >>
    /\ saved = NoBlob
    /\ pendingEdit = NoEdit
    /\ cmd = IdleCmd
    /\ last = NoLast
    /\ jump = NoJump
    /\ tog = NoTog
    /\ batch = NoBatch
    /\ invocation = NoInvocation
    /\ registry = NoRegistry
    /\ \E bks \in NavLists, line \in Lines, character \in Columns,
          direction \in {"Forward", "Backward"},
          navigateThroughAllFiles \in BOOLEAN, wrapNavigation \in BOOLEAN :
           nav = [NoNav EXCEPT !.bookmarks = bks,
                               !.currentPosition = Position(line, character),
                               !.direction = direction,
                               !.navigateThroughAllFiles = navigateThroughAllFiles,
                               !.wrapNavigation = wrapNavigation]

NextNav == NextBookmark

SpecNav == InitNav /\ [][NextNav]_vars

\* jumpToNext on each pair of project files, cursor and configuration; the
\* global registry is empty or holds one marker of the active document
InitJump ==
    /\ pendingEdit = NoEdit
    /\ cmd = IdleCmd
    /\ last = NoLast
    /\ nav = NoNav
    /\ tog = NoTog
    /\ batch = NoBatch
    /\ invocation = NoInvocation
    /\ registry = NoRegistry
    /\ \E own \in AscendingStores, other \in AscendingStores, activeFile \in ProjectPaths,
          global \in {bks \in AscendingStores : Len(bks) <= 1},
          line \in Lines, direction \in {"Forward", "Backward"},
          navigateThroughAllFiles \in BOOLEAN, wrapNavigation \in BOOLEAN :
           /\ files = IF global = << >> THEN << >>
                      ELSE <<[path |-> activeFile, bookmarks |-> global]>>
           /\ jump = [NoJump EXCEPT
                         !.project = [p \in ProjectPaths |->
                                         IF p = activeFile THEN own ELSE other],
                         !.activeFile = activeFile,
                         !.shown = activeFile,
                         !.currentPosition = Position(line, 0),
                         !.direction = direction,
                         !.navigateThroughAllFiles = navigateThroughAllFiles,
                         !.wrapNavigation = wrapNavigation]
    /\ saved = save(files)

NextJump == JumpToNext

SpecJump == InitJump /\ [][NextJump]_vars

\* the next invocation of the command after a jump that revealed a position:
\* the cursor it reads is the position the jump moved the selection to
InvokeAgain ==
    /\ jump.called
    /\ jump.revealed.some
    /\ jump' = [jump EXCEPT !.called = FALSE,
                            !.currentPosition = Position(jump.revealed.line,
                                                         jump.revealed.character),
                            !.revealed = NoPosition]
    /\ UNCHANGED <<files, saved, pendingEdit, cmd, last, nav, tog, batch, invocation, registry>>

\* the command invoked again and again inside one file, with wrapNavigation
\* set and navigateThroughAllFiles not set
InitCycle ==
    /\ InitJump
    /\ ~jump.navigateThroughAllFiles
    /\ jump.wrapNavigation
    /\ jump.project[OtherFile] = << >>

NextCycle == JumpToNext \/ InvokeAgain

\* the user keeps invoking the command: the jump runs again and again, and
\* the selection a jump has set is the one the next invocation reads
SpecCycle == InitCycle /\ [][NextCycle]_vars /\ []<><<JumpToNext>>_vars /\ WF_vars(InvokeAgain)

\* calls of toggle on each store: the blob holds what save() wrote for the
\* store, or nothing when the registry is empty and was never saved
InitToggle ==
    /\ \E bks \in AscendingStores :
           files = IF bks = << >> THEN << >> ELSE <<[path |-> TheFile, bookmarks |-> bks]>>
    /\ saved \in {save(files)} \cup (IF files = << >> THEN {NoBlob} ELSE {})
    /\ pendingEdit = NoEdit
    /\ cmd = IdleCmd
    /\ last = NoLast
    /\ nav = NoNav
    /\ jump = NoJump
    /\ tog = NoTog
    /\ batch = NoBatch
    /\ invocation = NoInvocation
    /\ registry = NoRegistry

NextToggle ==
    \/ \E uri \in RawPaths, line \in Lines, column \in Columns,
          label \in Labels \cup {undefined} :
           ToggleCall(uri, line, column, label)
    \/ ToggleReturn

SpecToggle == InitToggle /\ [][NextToggle]_vars

\* bookmarks.toggleGlobal run once on the selections of the editor: the store
\* of a command that has not run yet is the store the editor state was
\* drawn with, and every batch changes the store
ToggleGlobalBatch ==
    /\ files = batch.pre
    /\ ToggleGlobal(batch.uri, batch.selections, batch.toggleMode)

\* ascending stores whose first marker carries either label
BatchStores ==
    {IF bks = << >> THEN bks ELSE [bks EXCEPT ![1].label = label] :
        bks \in AscendingStores, label \in Labels}

InitBatch ==
    /\ \E bks \in BatchStores :
           files = IF bks = << >> THEN << >> ELSE <<[path |-> TheFile, bookmarks |-> bks]>>
    /\ saved = save(files)
    /\ pendingEdit = NoEdit
    /\ cmd = IdleCmd
    /\ last = NoLast
    /\ nav = NoNav
    /\ jump = NoJump
    /\ tog = NoTog
    /\ \E uri \in RawPaths, selections \in SelectionLists,
          toggleMode \in {"allLinesAtOnce", "eachLineIndependently"} :
           batch = [uri |-> uri, selections |-> selections, toggleMode |-> toggleMode,
                    pre |-> files]
    /\ invocation = NoInvocation
    /\ registry = NoRegistry

NextBatch ==
    \/ ToggleGlobalBatch
    \/ ResumeAfterAdd

SpecBatch == InitBatch /\ [][NextBatch]_vars

\* GlobalBookmarksManager.addBookmark called on its own, on any line: the push
\* and the sort come before its await, the event it fires afterwards changes
\* nothing, and its promise resolves to no value
AddBookmarkCall(uri, line, column, label) ==
    /\ invocation.op = "none"
    /\ files' = addBookmark(files, uri, line, column, label)
    /\ invocation' = [op |-> "addBookmark", line |-> line, column |-> column,
                      label |-> label, pre |-> getBookmarksForFile(files, uri),
                      post |-> getBookmarksForFile(files', uri), result |-> undefined]
    /\ UNCHANGED <<saved, pendingEdit, cmd, last, nav, jump, tog, batch, registry>>

NextAdd ==
    \E uri \in RawPaths, line \in Lines, column \in Columns, label \in Labels \cup {undefined} :
        AddBookmarkCall(uri, line, column, label)

SpecAdd == InitToggle /\ [][NextAdd]_vars

(***************************************************************************)
(* Loading.  The text under a storage key is modelled by what JSON.parse   *)
(* makes of it: nothing stored, text that does not parse, a value that is  *)
(* not an array, or an array of entries.  An entry is a file with a path   *)
(* and a list of markers, or a malformed value: null, an object without a  *)
(* path, an object without bookmarks, an object whose bookmarks is not a   *)
(* list.  A blob written by save() is an array of files.                   *)
(***************************************************************************)
MaxEntries == 2

EntryTags == {"file", "null", "noPath", "noBookmarks", "bookmarksNotList"}

BlobEntries ==
    {[tag |-> "file", path |-> p, bookmarks |-> bks] :
        p \in RawPaths \cup {TheFile},
        bks \in {<< >>, <<[line |-> 1, column |-> 0, label |-> "a"]>>}}
    \cup {[tag |-> t, path |-> TheFile, bookmarks |-> << >>] : t \in EntryTags \ {"file"}}

LoadBlobs ==
    {NoBlob,
     [present |-> TRUE, kind |-> "unparsable", files |-> << >>],
     [present |-> TRUE, kind |-> "notArray", files |-> << >>]}
    \cup {[present |-> TRUE, kind |-> "array", files |-> entries] :
             entries \in UNION {[1..n -> BlobEntries] : n \in 0..MaxEntries}}

blobKind(blob) ==
    IF ~blob.present THEN "absent"
    ELSE IF "kind" \in DOMAIN blob THEN blob.kind ELSE "array"

entryTag(entry) == IF "tag" \in DOMAIN entry THEN entry.tag ELSE "file"

\* a parsed entry as an element of the registry
asFile(entry, path) ==
    IF entryTag(entry) = "file" THEN [path |-> path, bookmarks |-> entry.bookmarks]
    ELSE [entry EXCEPT !.path = path]

\* GlobalBookmarksManager.load of core/container.ts on a new manager.  The
\* whole body runs inside try: JSON.parse throws on text that does not
\* parse; the map throws on an entry that is null or has no path (property
\* of null, normalizePath of undefined); countBookmarks, an argument of the
\* debug log, throws on an entry without bookmarks and counts nothing on
\* bookmarks that is not a list.  The catch empties the registry and shows
\* an error message.
load(blob) ==
    LET entries == blob.files
        thrown ==
            \/ blobKind(blob) = "unparsable"
            \/ /\ blobKind(blob) = "array"
               /\ \E i \in 1..Len(entries) :
                      entryTag(entries[i]) \in {"null", "noPath", "noBookmarks"}
    IN  IF blobKind(blob) \in {"absent", "notArray"}
        THEN [threw |-> FALSE, warned |-> FALSE, files |-> << >>]
        ELSE IF thrown
        THEN [threw |-> FALSE, warned |-> TRUE, files |-> << >>]
        ELSE [threw |-> FALSE, warned |-> FALSE,
              files |-> [i \in 1..Len(entries) |->
                            asFile(entries[i], normalizePath(entries[i].path))]]

\* GlobalBookmarksManager.load of global/globalBookmarks.ts: an array is
\* taken as the registry as it is, the catch covers JSON.parse only
loadAsParsed(blob) ==
    IF blobKind(blob) = "array"
    THEN [threw |-> FALSE, warned |-> FALSE,
          files |-> [i \in 1..Len(blob.files) |->
                        asFile(blob.files[i], blob.files[i].path)]]
    ELSE [threw |-> FALSE, warned |-> FALSE, files |-> << >>]

Load ==
    /\ invocation.op = "none"
    /\ files' = load(saved).files
    /\ invocation' = [op |-> "load", source |-> "core/container.ts", blob |-> saved,
                      threw |-> load(saved).threw,
                      warned |-> load(saved).warned]
    /\ UNCHANGED <<saved, pendingEdit, cmd, last, nav, jump, tog, batch, registry>>

LoadAsParsed ==
    /\ invocation.op = "none"
    /\ files' = loadAsParsed(saved).files
    /\ invocation' = [op |-> "load", source |-> "global/globalBookmarks.ts", blob |-> saved,
                      threw |-> loadAsParsed(saved).threw,
                      warned |-> loadAsParsed(saved).warned]
    /\ UNCHANGED <<saved, pendingEdit, cmd, last, nav, jump, tog, batch, registry>>

\* the state at activation: a new manager, and whatever an earlier session
\* or another program left under the key
InitLoad ==
    /\ files = << >>
    /\ saved \in LoadBlobs
    /\ pendingEdit = NoEdit
    /\ cmd = IdleCmd
    /\ last = NoLast
    /\ nav = NoNav
    /\ jump = NoJump
    /\ tog = NoTog
    /\ batch = NoBatch
    /\ invocation = NoInvocation
    /\ registry = NoRegistry

NextLoad ==
    \/ Load
    \/ LoadAsParsed

SpecLoad == InitLoad /\ [][NextLoad]_vars

\* Controller.loadFrom on a parsed value: the files of a well-formed list,
\* nothing of a malformed one
loadFrom(blob) ==
    IF blobKind(blob) = "array"
       /\ \A i \in 1..Len(blob.files) : entryTag(blob.files[i]) = "file"
    THEN [i \in 1..Len(blob.files) |->
             [path |-> blob.files[i].path, bookmarks |-> blob.files[i].bookmarks]]
    ELSE << >>

\* loadBookmarks: from .vscode/bookmarks.json, read and parsed by readFileUri
\* inside a try, or from the workspace-state key bookmarks, parsed outside
\* any try; rejected tells that the promise of loadBookmarks rejects
loadBookmarks(saveBookmarksInProject, blob) ==
    IF blobKind(blob) = "absent"
    THEN [rejected |-> FALSE, warned |-> FALSE, files |-> << >>]
    ELSE IF blobKind(blob) = "unparsable"
    THEN IF saveBookmarksInProject
         THEN [rejected |-> FALSE, warned |-> TRUE, files |-> << >>]
         ELSE [rejected |-> TRUE, warned |-> FALSE, files |-> << >>]
    ELSE [rejected |-> FALSE, warned |-> FALSE, files |-> loadFrom(blob)]

LoadBookmarks(saveBookmarksInProject, blob) ==
    /\ invocation.op = "none"
    /\ invocation' = [op |-> "loadBookmarks",
                      saveBookmarksInProject |-> saveBookmarksInProject, blob |-> blob,
                      rejected |-> loadBookmarks(saveBookmarksInProject, blob).rejected,
                      warned |-> loadBookmarks(saveBookmarksInProject, blob).warned,
                      files |-> loadBookmarks(saveBookmarksInProject, blob).files]
    /\ UNCHANGED <<files, saved, pendingEdit, cmd, last, nav, jump, tog, batch, registry>>

NextLoadBookmarks ==
    \E saveBookmarksInProject \in BOOLEAN, blob \in LoadBlobs :
        LoadBookmarks(saveBookmarksInProject, blob)

SpecLoadBookmarks == Init /\ [][NextLoadBookmarks]_vars

(***************************************************************************)
(* Listing.  listBookmarks of the project scope works on the marker list   *)
(* of one File and on the document opened for it.                          *)
(***************************************************************************)
\* an item of the quick pick: the position as shown (from 1) and the label,
\* which is the text of the line for a marker without a label
lineText == "lineText"

quickPickItem(bookmark) ==
    [line |-> bookmark.line + 1, column |-> bookmark.column + 1,
     label |-> IF bookmark.label = "" THEN lineText ELSE bookmark.label]

\* file.bookmarks.splice(idxInvalid, 1) where idxInvalid is the result of
\* indexOf on an object created for the call: no element of the array is
\* that object, indexOf gives -1 and splice(-1, 1) takes the last element
spliceInvalid(bookmarks) ==
    IF bookmarks = << >> THEN bookmarks ELSE SubSeq(bookmarks, 1, Len(bookmarks) - 1)

RECURSIVE spliceInvalids(_, _)
spliceInvalids(bookmarks, invalids) ==
    IF invalids = << >> THEN bookmarks
    ELSE spliceInvalids(spliceInvalid(bookmarks), Tail(invalids))

\* a listBookmarks that takes a marker on the line after the last one for valid
listBookmarksPastEnd(bookmarks, exists, lineCount) ==
    IF bookmarks = << >> \/ ~exists
    THEN [listed |-> FALSE, items |-> << >>, bookmarks |-> bookmarks]
    ELSE LET valid == SelectSeq(bookmarks, LAMBDA b : b.line + 1 <= lineCount + 1)
             invalids == SelectSeq(bookmarks, LAMBDA b : ~(b.line + 1 <= lineCount + 1))
         IN  [listed |-> TRUE,
              items |-> [i \in 1..Len(valid) |-> quickPickItem(valid[i])],
              bookmarks |-> spliceInvalids(bookmarks, invalids)]

\* listBookmarks: listed is FALSE when the promise resolves to undefined (no
\* marker, or no such file), else items is the list it resolves to
listBookmarks(bookmarks, exists, lineCount) ==
    IF bookmarks = << >> \/ ~exists
    THEN [listed |-> FALSE, items |-> << >>, bookmarks |-> bookmarks]
    ELSE LET valid == SelectSeq(bookmarks, LAMBDA b : b.line + 1 <= lineCount)
             invalids == SelectSeq(bookmarks, LAMBDA b : ~(b.line + 1 <= lineCount))
         IN  [listed |-> TRUE,
              items |-> [i \in 1..Len(valid) |-> quickPickItem(valid[i])],
              bookmarks |-> spliceInvalids(bookmarks, invalids)]

ListBookmarks(bookmarks, exists, lineCount) ==
    /\ invocation.op = "none"
    /\ invocation' = [op |-> "listBookmarks", pre |-> bookmarks, exists |-> exists,
                      lineCount |-> lineCount,
                      listed |-> listBookmarks(bookmarks, exists, lineCount).listed,
                      items |-> listBookmarks(bookmarks, exists, lineCount).items,
                      post |-> listBookmarks(bookmarks, exists, lineCount).bookmarks]
    /\ UNCHANGED <<files, saved, pendingEdit, cmd, last, nav, jump, tog, batch, registry>>

\* a document has at least one line
LineCounts == 1..(MaxLine + 1)

NextListBookmarks ==
    \E bookmarks \in BatchStores, exists \in BOOLEAN, lineCount \in LineCounts :
        ListBookmarks(bookmarks, exists, lineCount)

SpecListBookmarks == Init /\ [][NextListBookmarks]_vars

\* the promise listBookmarks returns: it is resolved by the two early
\* returns and by the callback given to openTextDocument(...).then; no
\* callback is given for the rejection of openTextDocument, so when the
\* document cannot be opened nothing resolves the promise (settled is FALSE)
\* and the markers are left as they were
listBookmarksPromise(bookmarks, exists, opens, lineCount) ==
    IF bookmarks = << >> \/ ~exists \/ opens
    THEN [settled |-> TRUE,
          listed |-> listBookmarks(bookmarks, exists, lineCount).listed,
          items |-> listBookmarks(bookmarks, exists, lineCount).items,
          bookmarks |-> listBookmarks(bookmarks, exists, lineCount).bookmarks]
    ELSE [settled |-> FALSE, listed |-> FALSE, items |-> << >>, bookmarks |-> bookmarks]

\* a project file as listFromAllFiles meets it: its markers, whether the
\* file exists, whether its document can be opened, and its line count
ListedFiles ==
    [bookmarks : AscendingStores, exists : BOOLEAN, opens : BOOLEAN, lineCount : LineCounts]

RECURSIVE flatten(_)
flatten(lists) == IF lists = << >> THEN << >> ELSE Head(lists) \o flatten(Tail(lists))

\* listFromAllFiles: one promise per file of the controller, and the picker
\* shown by the callback of Promise.all, which runs when every promise has
\* been resolved
ListFromAllFiles(controllerFiles) ==
    /\ invocation.op = "none"
    /\ \E i \in 1..Len(controllerFiles) : controllerFiles[i].bookmarks # << >>
    /\ LET promisses == [i \in 1..Len(controllerFiles) |->
                            listBookmarksPromise(controllerFiles[i].bookmarks,
                                                 controllerFiles[i].exists,
                                                 controllerFiles[i].opens,
                                                 controllerFiles[i].lineCount)]
           all == \A i \in 1..Len(promisses) : promisses[i].settled
       IN  invocation' = [op |-> "listFromAllFiles", files |-> controllerFiles,
                          promisses |-> promisses, shown |-> all,
                          items |-> IF all
                                    THEN flatten([i \in 1..Len(promisses) |->
                                                     promisses[i].items])
                                    ELSE << >>]
    /\ UNCHANGED <<files, saved, pendingEdit, cmd, last, nav, jump, tog, batch, registry>>

NextListFromAllFiles ==
    \E first \in ListedFiles,
       second \in {f \in ListedFiles : Len(f.bookmarks) <= 1 /\ f.lineCount = MaxLine + 1} :
        ListFromAllFiles(<<first, second>>)

SpecListFromAllFiles == Init /\ [][NextListFromAllFiles]_vars

(***************************************************************************)
(* The global listing (bookmarks.listGlobals) and the global tree          *)
(* (GlobalBookmarkProvider.getChildren).  documents gives for each path    *)
(* the number of lines of its document, 0 when it cannot be opened.        *)
(***************************************************************************)
canRead(documents, path, line) == documents[path] > 0 /\ line < documents[path]

\* the text shown for a marker: the text of its line, the fallback, its label
textOfLine(line) == [kind |-> "text", n |-> line, label |-> ""]

fallbackFromZero(line) == [kind |-> "fallback", n |-> line, label |-> ""]

fallbackLabel(line) == [kind |-> "fallback", n |-> line + 1, label |-> ""]

labelText(label) == [kind |-> "label", n |-> 0, label |-> label]

\* the item bookmarks.listGlobals pushes for a marker: the document is
\* opened and the line read for every marker, with or without a label
globalItem(documents, path, bkm) ==
    LET read == IF canRead(documents, path, bkm.line) THEN textOfLine(bkm.line)
                ELSE fallbackLabel(bkm.line)
    IN  [label |-> IF bkm.label # "" THEN labelText(bkm.label) ELSE read,
         line |-> bkm.line + 1, column |-> bkm.column + 1, detail |-> path]

\* the node getChildren makes for a marker of a file node: the document is
\* opened for a marker without a label only
globalNode(documents, path, bkm) ==
    [label |-> IF bkm.label # "" THEN labelText(bkm.label)
               ELSE IF canRead(documents, path, bkm.line) THEN textOfLine(bkm.line)
               ELSE fallbackLabel(bkm.line),
     line |-> bkm.line + 1, column |-> bkm.column + 1, detail |-> path]

\* the items of all the files, file after file
RECURSIVE listGlobals(_, _)
listGlobals(fs, documents) ==
    IF fs = << >> THEN << >>
    ELSE LET file == Head(fs)
         IN  [i \in 1..Len(file.bookmarks) |->
                 globalItem(documents, file.path, file.bookmarks[i])]
             \o listGlobals(Tail(fs), documents)

\* the nodes of the tree: getChildren of the root gives the files that have
\* a marker, getChildren of each file node gives its markers
RECURSIVE getChildren(_, _)
getChildren(fs, documents) ==
    IF fs = << >> THEN << >>
    ELSE LET file == Head(fs)
         IN  [i \in 1..Len(file.bookmarks) |->
                 globalNode(documents, file.path, file.bookmarks[i])]
             \o getChildren(Tail(fs), documents)

\* bookmarks.listGlobals up to the quick pick; neither the command nor the
\* tree writes to the registry
ListGlobals(documents) ==
    /\ invocation.op = "none"
    /\ countBookmarks(files) > 0
    /\ invocation' = [op |-> "listGlobals", documents |-> documents, pre |-> files,
                      items |-> listGlobals(files, documents), threw |-> FALSE]
    /\ UNCHANGED <<files, saved, pendingEdit, cmd, last, nav, jump, tog, batch, registry>>

\* the tree read from the root down
GetChildren(documents) ==
    /\ invocation.op = "none"
    /\ invocation' = [op |-> "getChildren", documents |-> documents, pre |-> files,
                      items |-> getChildren(files, documents), threw |-> FALSE]
    /\ UNCHANGED <<files, saved, pendingEdit, cmd, last, nav, jump, tog, batch, registry>>

ListingPaths == {TheFile, OtherFile}

ListingDocuments == [ListingPaths -> 0..(MaxLine + 1)]

\* a registry of two files; the second one holds at most one marker
InitListing ==
    /\ \E bks \in BatchStores,
          other \in {<< >>} \cup {<<[line |-> 1, column |-> 0, label |-> l]>> : l \in Labels} :
           files = <<[path |-> TheFile, bookmarks |-> bks],
                     [path |-> OtherFile, bookmarks |-> other]>>
    /\ saved = save(files)
    /\ pendingEdit = NoEdit
    /\ cmd = IdleCmd
    /\ last = NoLast
    /\ nav = NoNav
    /\ jump = NoJump
    /\ tog = NoTog
    /\ batch = NoBatch
    /\ invocation = NoInvocation
    /\ registry = NoRegistry

NextListing ==
    \/ \E documents \in ListingDocuments : ListGlobals(documents)
    \/ \E documents \in ListingDocuments : GetChildren(documents)

SpecListing == InitListing /\ [][NextListing]_vars

(***************************************************************************)
(* bookmarks.toggleGlobalLabeled run alone on each store, list of          *)
(* selections, suggestion and answer to the input box, which invocation    *)
(* holds from the start.                                                   *)
(***************************************************************************)
ToggleGlobalLabeledRun ==
    /\ files = invocation.pre
    /\ ToggleGlobalLabeled(invocation.uri, invocation.selections, invocation.suggestion,
                           invocation.useSelectionWhenAvailable)

ToggleGlobalLabeledAnswer == ToggleGlobalLabeledInput(invocation.answer)

InitLabeled ==
    /\ \E bks \in BatchStores :
           files = IF bks = << >> THEN << >> ELSE <<[path |-> TheFile, bookmarks |-> bks]>>
    /\ saved = save(files)
    /\ pendingEdit = NoEdit
    /\ cmd = IdleCmd
    /\ last = NoLast
    /\ nav = NoNav
    /\ jump = NoJump
    /\ tog = NoTog
    /\ batch = NoBatch
    /\ \E uri \in RawPaths, selections \in SelectionLists, suggestion \in Labels,
          useSelectionWhenAvailable \in BOOLEAN, answer \in Labels \cup {undefined} :
           invocation = [op |-> "toggleGlobalLabeled", uri |-> uri,
                         selections |-> selections, suggestion |-> suggestion,
                         useSelectionWhenAvailable |-> useSelectionWhenAvailable,
                         answer |-> answer, pre |-> files]
    /\ registry = NoRegistry

NextLabeled ==
    \/ ToggleGlobalLabeledRun
    \/ ToggleGlobalLabeledAnswer
    \/ ResumeAfterAdd

SpecLabeled == InitLabeled /\ [][NextLabeled]_vars

(***************************************************************************)
(* shrinkSelection.  A selection is its start and its end, start not after *)
(* end, and isReversed tells that the active end is the start.  shrunk     *)
(* tells that shrinkSelectionToPosition was called, to is its argument.    *)
(***************************************************************************)
EditorSelections ==
    {sel \in [start : Selection, end : Selection, isReversed : BOOLEAN] :
        /\ \/ sel.start.line < sel.end.line
           \/ sel.start.line = sel.end.line /\ sel.start.character <= sel.end.character
        /\ sel.start = sel.end => ~sel.isReversed}

shrinkSelection(bookmarks, selection, navigateThroughAllFiles, wrapNavigation) ==
    LET direction == IF selection.isReversed THEN "Forward" ELSE "Backward"
        activeSelectionStartLine == IF selection.isReversed THEN selection.end.line
                                    ELSE selection.start.line
        currPosition == IF direction = "Forward"
                        THEN Position(selection.start.line, selection.start.character)
                        ELSE Position(selection.end.line, selection.end.character)
        next == nextBookmark(bookmarks, currPosition, direction, navigateThroughAllFiles,
                             wrapNavigation)
    IN  IF selection.start = selection.end \/ bookmarks = << >>
        THEN [shrunk |-> FALSE, to |-> NoPosition]
        ELSE IF next.isNumber
        THEN [shrunk |-> FALSE, to |-> NoPosition]
        ELSE IF \/ direction = "Backward" /\ next.line < activeSelectionStartLine
                \/ direction = "Forward" /\ next.line > activeSelectionStartLine
        THEN [shrunk |-> FALSE, to |-> NoPosition]
        ELSE [shrunk |-> TRUE, to |-> revealPosition(next.line, next.character)]

ShrinkSelection(bookmarks, selection, navigateThroughAllFiles, wrapNavigation) ==
    /\ invocation.op = "none"
    /\ invocation' = [op |-> "shrinkSelection", bookmarks |-> bookmarks,
                      selection |-> selection,
                      navigateThroughAllFiles |-> navigateThroughAllFiles,
                      wrapNavigation |-> wrapNavigation,
                      result |-> shrinkSelection(bookmarks, selection,
                                                 navigateThroughAllFiles, wrapNavigation)]
    /\ UNCHANGED <<files, saved, pendingEdit, cmd, last, nav, jump, tog, batch, registry>>

NextShrink ==
    \E bookmarks \in AscendingStores, selection \in EditorSelections,
       navigateThroughAllFiles \in BOOLEAN, wrapNavigation \in BOOLEAN :
        ShrinkSelection(bookmarks, selection, navigateThroughAllFiles, wrapNavigation)

SpecShrink == Init /\ [][NextShrink]_vars

(***************************************************************************)
(* The project registry: controllers and activeController of activate.     *)
(* workspaceFolders is the number of workspace folders (0: undefined), an  *)
(* editor is known by the folder of its document (0: outside every         *)
(* folder), and each load of a controller takes the markers its persisted  *)
(* state holds for the document.                                           *)
(***************************************************************************)
MaxReloads == 2

ProjectStores == {bks \in AscendingStores : Len(bks) <= 1 /\ \A i \in 1..Len(bks) : bks[i].line = 1}

Editors(workspaceFolders) ==
    {[some |-> FALSE, folder |-> 0]} \cup {[some |-> TRUE, folder |-> f] : f \in 0..workspaceFolders}

\* the Controller loadBookmarks(workspaceFolder) resolves to, a new object
Controller(id, folder, bookmarks) == [id |-> id, folder |-> folder, bookmarks |-> bookmarks]

\* loadWorkspaceState: without workspace folders, or with
\* saveBookmarksInProject off, one controller is pushed and made active; else
\* controllers becomes a new list of one new controller per folder, and
\* activeController is given a value only when it has none
loadWorkspaceState(r, loadedBookmarks) ==
    IF r.workspaceFolders = 0 \/ ~r.saveBookmarksInProject
    THEN [r EXCEPT !.controllers =
                       Append(@, Controller(r.loaded + 1,
                                            IF r.workspaceFolders = 0 THEN 0 ELSE 1,
                                            loadedBookmarks[1])),
                   !.activeController = r.loaded + 1,
                   !.loaded = @ + 1]
    ELSE [r EXCEPT !.controllers = [i \in 1..r.workspaceFolders |->
                                       Controller(r.loaded + i, i, loadedBookmarks[i])],
                   !.activeController = IF @ = 0 THEN r.loaded + 1 ELSE @,
                   !.loaded = @ + r.workspaceFolders]

\* getActiveController(document), documentFolder being the workspace folder
\* of the document
getActiveController(r, documentFolder) ==
    LET found == {i \in 1..Len(r.controllers) : r.controllers[i].folder = documentFolder}
    IN  IF Len(r.controllers) = 0 THEN [r EXCEPT !.activeController = 0]
        ELSE IF documentFolder = 0 \/ Len(r.controllers) = 1 \/ found = {}
        THEN [r EXCEPT !.activeController = r.controllers[1].id]
        ELSE [r EXCEPT !.activeController =
                           r.controllers[CHOOSE i \in found : \A j \in found : i <= j].id]

\* the part of ensureActiveFile that concerns the registry
ensureActiveFile(r) ==
    IF r.activeTextEditor.some THEN getActiveController(r, r.activeTextEditor.folder) ELSE r

\* activate: the first load, then the hookup of the active editor
Activate(workspaceFolders, saveBookmarksInProject, editor, loadedBookmarks) ==
    /\ registry.pc = "inactive"
    /\ registry' = ensureActiveFile(
                       loadWorkspaceState([registry EXCEPT
                                              !.pc = "active",
                                              !.workspaceFolders = workspaceFolders,
                                              !.saveBookmarksInProject = saveBookmarksInProject,
                                              !.activeTextEditor = editor],
                                          loadedBookmarks))
    /\ UNCHANGED <<files, saved, pendingEdit, cmd, last, nav, jump, tog, batch, invocation>>

\* onDidChangeConfiguration for bookmarks.saveBookmarksInProject: when the
\* setting goes from false to true, a bookmarks file is found in a folder
\* and the user chooses to load, the project state is loaded again
ChangeSaveBookmarksInProject(newValue, hasAnyBookmarksFile, choosesLoad, loadedBookmarks) ==
    /\ registry.pc = "active"
    /\ newValue # registry.saveBookmarksInProject
    /\ LET changedFromFalseToTrue == ~registry.saveBookmarksInProject /\ newValue
           changed == [registry EXCEPT !.saveBookmarksInProject = newValue]
       IN  IF changedFromFalseToTrue /\ registry.workspaceFolders > 0
              /\ hasAnyBookmarksFile /\ choosesLoad
           THEN /\ registry.reloads < MaxReloads
                /\ registry' = ensureActiveFile(
                                   loadWorkspaceState([changed EXCEPT !.reloads = @ + 1],
                                                      loadedBookmarks))
           ELSE registry' = changed
    /\ UNCHANGED <<files, saved, pendingEdit, cmd, last, nav, jump, tog, batch, invocation>>

\* onDidChangeActiveTextEditor
ChangeActiveTextEditor(editor) ==
    /\ registry.pc = "active"
    /\ editor # registry.activeTextEditor
    /\ registry' = ensureActiveFile([registry EXCEPT !.activeTextEditor = editor])
    /\ UNCHANGED <<files, saved, pendingEdit, cmd, last, nav, jump, tog, batch, invocation>>

NextRegistry ==
    \/ \E workspaceFolders \in 0..2, saveBookmarksInProject \in BOOLEAN,
          loadedBookmarks \in [1..2 -> ProjectStores] :
           \E editor \in Editors(workspaceFolders) :
               Activate(workspaceFolders, saveBookmarksInProject, editor, loadedBookmarks)
    \/ \E newValue \in BOOLEAN, hasAnyBookmarksFile \in BOOLEAN, choosesLoad \in BOOLEAN,
          loadedBookmarks \in [1..2 -> ProjectStores] :
           ChangeSaveBookmarksInProject(newValue, hasAnyBookmarksFile, choosesLoad,
                                        loadedBookmarks)
    \/ \E editor \in Editors(registry.workspaceFolders) : ChangeActiveTextEditor(editor)

SpecRegistry == Init /\ [][NextRegistry]_vars

(***************************************************************************)
(* The two scopes side by side: the global registry over two documents and *)
(* a project registry that activate has loaded, under the events that      *)
(* change global markers.                                                  *)
(***************************************************************************)
ScopePaths == RawPaths \cup {OtherFile}

\* cursors on the first two lines of a document: one, or one on each
ScopeSelections ==
    {s \in SingleSelections \cup BatchSelections :
        /\ \A i \in 1..Len(s) : s[i].line = i - 1 \/ (Len(s) = 1 /\ s[i].line = 1)
        /\ \A i \in 1..Len(s) : s[i].character = 0}

\* edits at the start of a document: a line inserted, a line deleted
ScopeChanges ==
    {cs \in SingleChanges :
        \A i \in 1..Len(cs) :
            /\ cs[i].startLine = 0 /\ cs[i].startChar = 0
            /\ cs[i].endLine <= 1 /\ cs[i].newlines <= 1}

\* the events that change the global markers of the document uri
GlobalMutation(uri) ==
    \/ \E selections \in ScopeSelections, toggleMode \in {"allLinesAtOnce", "eachLineIndependently"} :
           ToggleGlobal(uri, selections, toggleMode)
    \/ \E selections \in ScopeSelections : ToggleGlobalLabeled(uri, selections, "a", TRUE)
    \/ \E line \in Lines : DeleteGlobalBookmark(uri, line, 0)
    \/ cmd.uri = uri /\ ResumeAfterAdd
    \/ \E line \in Lines : EditGlobalLabel(uri, line, 0)
    \/ pendingEdit.path = normalizePath(uri) /\ \E newLabel \in Labels : EditGlobalLabelInput(newLabel)
    \/ ClearGlobalFromFile(uri)
    \/ \E contentChanges \in ScopeChanges :
           /\ OnDidChangeTextDocument(uri, contentChanges, TRUE, FALSE)
           /\ \A i \in 1..Len(files') : \A j \in 1..Len(files'[i].bookmarks) :
                  files'[i].bookmarks[j].line \in Lines

InitScopes ==
    /\ files = << >>
    /\ saved = NoBlob
    /\ pendingEdit = NoEdit
    /\ cmd = IdleCmd
    /\ last = NoLast
    /\ nav = NoNav
    /\ jump = NoJump
    /\ tog = NoTog
    /\ batch = NoBatch
    /\ invocation = NoInvocation
    /\ \E loadedBookmarks \in [1..2 -> ProjectStores] :
           registry = ensureActiveFile(
                          loadWorkspaceState([NoRegistry EXCEPT !.pc = "active",
                                                                !.workspaceFolders = 1],
                                             loadedBookmarks))

NextScopes ==
    \E uri \in ScopePaths : GlobalMutation(uri) /\ countBookmarks(files') <= MaxMarkers

SpecScopes == InitScopes /\ [][NextScopes]_vars

(***************************************************************************)
(* Sessions: the registry is saved, the window closes, and the manager of  *)
(* the next session loads what was saved.                                  *)
(***************************************************************************)
MaxSessions == 2

\* registries of at most two files, with the paths getOrCreateFile and load
\* leave; two entries of one path come from a blob that names a document
\* twice
Registries ==
    UNION {[1..n -> [path : {TheFile, OtherFile}, bookmarks : AscendingStores]] : n \in 0..2}

\* save() as the last act of a session
SaveRegistry ==
    /\ invocation.op \in {"none", "loadRegistry"}
    /\ invocation.op = "loadRegistry" => invocation.sessions < MaxSessions
    /\ saved' = save(files)
    /\ invocation' = [op |-> "saveRegistry",
                      first |-> IF invocation.op = "none" THEN files ELSE invocation.first,
                      sessions |-> IF invocation.op = "none" THEN 0 ELSE invocation.sessions,
                      before |-> files]
    /\ UNCHANGED <<files, pendingEdit, cmd, last, nav, jump, tog, batch, registry>>

\* activate of the next session: new GlobalBookmarksManager(), then load()
LoadRegistry ==
    /\ invocation.op = "saveRegistry"
    /\ files' = load(saved).files
    /\ invocation' = [invocation EXCEPT !.op = "loadRegistry", !.sessions = @ + 1]
    /\ UNCHANGED <<saved, pendingEdit, cmd, last, nav, jump, tog, batch, registry>>

InitSessions ==
    /\ files \in Registries
    /\ saved = NoBlob
    /\ pendingEdit = NoEdit
    /\ cmd = IdleCmd
    /\ last = NoLast
    /\ nav = NoNav
    /\ jump = NoJump
    /\ tog = NoTog
    /\ batch = NoBatch
    /\ invocation = NoInvocation
    /\ registry = NoRegistry

NextSessions ==
    \/ SaveRegistry
    \/ LoadRegistry

SpecSessions == InitSessions /\ [][NextSessions]_vars

(***************************************************************************)
(* The nodes of the tree and the commands invoked on them.  The tree keeps *)
(* the nodes getChildren built until it has fetched new ones: invocation   *)
(* holds the nodes shown.                                                  *)
(***************************************************************************)
\* the arguments getChildren gives to new GlobalBookmarkNode for each marker:
\* the path of the file node and the marker's line and column
RECURSIVE GlobalBookmarkNodes(_)
GlobalBookmarkNodes(fs) ==
    IF fs = << >> THEN {}
    ELSE {[filePath |-> Head(fs).path, line |-> Head(fs).bookmarks[i].line,
           column |-> Head(fs).bookmarks[i].column] : i \in 1..Len(Head(fs).bookmarks)}
         \cup GlobalBookmarkNodes(Tail(fs))

\* the tree fetches its nodes from the registry as it is now
BuildTree ==
    /\ NoneSuspended
    /\ invocation' = [op |-> "tree", nodes |-> GlobalBookmarkNodes(files)]
    /\ invocation' # invocation
    /\ UNCHANGED <<files, saved, pendingEdit, cmd, last, nav, jump, tog, batch, registry>>

\* _bookmarks.deleteGlobalBookmark invoked on a node the tree shows
DeleteNode(node) ==
    /\ invocation.op = "tree"
    /\ node \in invocation.nodes
    /\ DeleteGlobalBookmark(node.filePath, node.line, node.column)

InitTree == InitToggle

NextTree ==
    \/ BuildTree
    \/ \E node \in [filePath : {TheFile}, line : Lines, column : Columns] : DeleteNode(node)
    \/ ResumeAfterAdd
    \/ ClearGlobalFromFile(TheFile)
    \/ \E contentChanges \in SingleChanges, keepBookmarksOnLineDelete \in BOOLEAN :
           /\ NoneSuspended
           /\ OnDidChangeTextDocument(TheFile, contentChanges, keepBookmarksOnLineDelete,
                                      FALSE)
           /\ \A i \in 1..Len(files') : \A j \in 1..Len(files'[i].bookmarks) :
                  files'[i].bookmarks[j].line \in Lines

SpecTree == InitTree /\ [][NextTree]_vars

(***************************************************************************)
(* Properties.                                                             *)
(***************************************************************************)
\* a store with plain markers on the given lines, and the lines of a store
Markers(lines) == [i \in 1..Len(lines) |-> [line |-> lines[i], column |-> 0, label |-> ""]]

LineSeq(bks) == [i \in 1..Len(bks) |-> bks[i].line]

PureInsertion(line, character, newlines, blank) ==
    [startLine |-> line, startChar |-> character, endLine |-> line,
     newlines |-> newlines, blank |-> blank]

LineDeletion(startLine, character, endLine) ==
    [startLine |-> startLine, startChar |-> character, endLine |-> endLine,
     newlines |-> 0, blank |-> FALSE]

\* the lines a one-change event leaves from the given lines
StickyLines(lines, change, keepBookmarksOnLineDelete) ==
    LineSeq(updateStickyGlobalBookmarks(Markers(lines), <<change>>,
                                        keepBookmarksOnLineDelete).bookmarks)

\* the event recorded in last had exactly one change
OneChange == last.op = "sticky" /\ Len(last.changes) = 1

\* The store with the markers of lines [startLine, endLine) taken out and the
\* markers from endLine on moved up by the length of the range.
WithoutRange(bks, startLine, endLine) ==
    LET outside(m) == m.line < startLine \/ m.line >= endLine
        kept == SelectSeq(bks, outside)
    IN  [i \in 1..Len(kept) |->
            IF kept[i].line >= endLine
            THEN [kept[i] EXCEPT !.line = @ - (endLine - startLine)]
            ELSE kept[i]]

\* C1: whenever no command is suspended, every file's marker list is
\* strictly ascending by line.
C1_StoresStrictlyAscending ==
    NoneSuspended => \A i \in 1..Len(files) : StrictlyAscending(files[i].bookmarks)

\* C2: a change that inserts k >= 1 newlines at column 0 of startLine and
\* deletes no line moves down by k exactly the markers on startLine or below
\* it, and leaves every other marker as it was.
C2_InsertAtColumnZero ==
    /\ StickyLines(<<2, 5, 9>>, PureInsertion(5, 0, 3, FALSE), FALSE) = <<2, 8, 12>>
    /\ OneChange =>
         LET c == last.changes[1]
         IN  (c.newlines >= 1 /\ c.startLine = c.endLine /\ c.startChar = 0) =>
                 /\ Len(last.post) = Len(last.pre)
                 /\ \A i \in 1..Len(last.pre) :
                        last.post[i] =
                            IF last.pre[i].line >= c.startLine
                            THEN [last.pre[i] EXCEPT !.line = @ + c.newlines]
                            ELSE last.pre[i]

C2_Witness ==
    /\ OneChange
    /\ last.changes[1] = PureInsertion(1, 0, 2, FALSE)
    /\ LineSeq(last.pre) = <<0, 1, 2>>
    /\ LineSeq(last.post) = <<0, 3, 4>>

\* C3 as stated: a change that inserts k >= 1 newlines at a non-zero column
\* of startLine leaves a marker on startLine where it is and moves down by k
\* only the markers below startLine, whatever the text of the edited line.
C3_MidLineNeverShiftsStartLine ==
    OneChange =>
        LET c == last.changes[1]
        IN  (c.newlines >= 1 /\ c.startLine = c.endLine /\ c.startChar > 0) =>
                /\ Len(last.post) = Len(last.pre)
                /\ \A i \in 1..Len(last.pre) :
                       last.post[i] =
                           IF last.pre[i].line > c.startLine
                           THEN [last.pre[i] EXCEPT !.line = @ + c.newlines]
                           ELSE last.pre[i]

\* C3 amended: for such a change the marker on startLine stays and only the
\* markers below it move down by k, provided the text of line startLine read
\* after the edit has a character that is not white space; when that text is
\* empty or white space only, the change acts as an insertion at column 0 and
\* the marker on startLine moves down by k as well.
C3_MidLineShiftDependsOnText ==
    /\ StickyLines(<<2, 5, 9>>, PureInsertion(5, 4, 3, FALSE), FALSE) = <<2, 5, 12>>
    /\ StickyLines(<<2, 5, 9>>, PureInsertion(5, 4, 3, TRUE), FALSE) = <<2, 8, 12>>
    /\ OneChange =>
         LET c == last.changes[1]
         IN  (c.newlines >= 1 /\ c.startLine = c.endLine /\ c.startChar > 0) =>
                 /\ Len(last.post) = Len(last.pre)
                 /\ \A i \in 1..Len(last.pre) :
                        last.post[i] =
                            IF \/ last.pre[i].line > c.startLine
                               \/ (last.pre[i].line = c.startLine /\ c.blank)
                            THEN [last.pre[i] EXCEPT !.line = @ + c.newlines]
                            ELSE last.pre[i]

C3_Witness ==
    /\ OneChange
    /\ last.changes[1] = PureInsertion(1, 1, 2, TRUE)
    /\ LineSeq(last.pre) = <<0, 1, 2>>
    /\ LineSeq(last.post) = <<0, 3, 4>>

\* C4: with keepBookmarksOnLineDelete disabled, a deletion of the lines
\* [startLine, endLine) destroys exactly the markers of that range, moves the
\* markers from endLine on up by endLine - startLine, and leaves the markers
\* above startLine as they were.
C4_DeleteWithoutKeep ==
    /\ StickyLines(<<2, 5, 9>>, LineDeletion(4, 0, 7), FALSE) = <<2, 6>>
    /\ OneChange =>
         LET c == last.changes[1]
         IN  (c.newlines = 0 /\ c.startLine < c.endLine /\ ~last.keep) =>
                 last.post = WithoutRange(last.pre, c.startLine, c.endLine)

C4_Witness ==
    /\ OneChange
    /\ ~last.keep
    /\ last.changes[1] = LineDeletion(1, 0, 2)
    /\ LineSeq(last.pre) = <<0, 1, 3>>
    /\ LineSeq(last.post) = <<0, 2>>

\* C5: with keepBookmarksOnLineDelete enabled, a deletion of the lines
\* [startLine, endLine) keeps one marker of the range, moved to startLine,
\* unless a marker sits on endLine, which then is the one that lands on
\* startLine while the markers of the range are destroyed: afterwards
\* startLine holds exactly one marker if the store had a marker in
\* [startLine, endLine] and none otherwise, the markers below endLine have
\* moved up by endLine - startLine, the markers above startLine are as they
\* were, and no line holds two markers.
C5_DeleteWithKeep ==
    /\ StickyLines(<<2, 5, 9>>, LineDeletion(4, 0, 7), TRUE) = <<2, 4, 6>>
    /\ OneChange =>
         LET c == last.changes[1]
             inRange == {i \in 1..Len(last.pre) :
                            last.pre[i].line >= c.startLine /\ last.pre[i].line < c.endLine}
             atEnd == {i \in 1..Len(last.pre) : last.pre[i].line = c.endLine}
             survivor == IF atEnd # {} THEN CHOOSE i \in atEnd : TRUE
                         ELSE CHOOSE i \in inRange : \A j \in inRange : i <= j
             atStart == {i \in 1..Len(last.post) : last.post[i].line = c.startLine}
         IN  (c.newlines = 0 /\ c.startLine < c.endLine /\ last.keep) =>
                 /\ Cardinality(atStart) = IF inRange \cup atEnd # {} THEN 1 ELSE 0
                 /\ \A i \in atStart :
                        last.post[i] = [last.pre[survivor] EXCEPT !.line = c.startLine]
                 /\ StrictlyAscending(last.post)
                 /\ {m \in Range(last.post) : m.line < c.startLine}
                        = {m \in Range(last.pre) : m.line < c.startLine}
                 /\ {m \in Range(last.post) : m.line > c.startLine}
                        = {[m EXCEPT !.line = @ - (c.endLine - c.startLine)] :
                               m \in {x \in Range(last.pre) : x.line > c.endLine}}

C5_Witness ==
    /\ OneChange
    /\ last.keep
    /\ last.changes[1] = LineDeletion(1, 0, 3)
    /\ LineSeq(last.pre) = <<0, 1, 2, 3>>
    /\ last.post = <<[line |-> 0, column |-> 0, label |-> ""],
                     [line |-> 1, column |-> 1, label |-> ""]>>

\* C6: for a change that both deletes the lines [startLine, endLine) and
\* inserts k >= 1 newlines, the store after the event is the store the
\* deletion pass followed by the insertion pass gives.
C6_ReplaceIsDeleteThenInsert ==
    OneChange =>
        LET c == last.changes[1]
        IN  (c.newlines >= 1 /\ c.startLine < c.endLine) =>
                last.post = stickyAdd(stickyDel(last.pre, c, last.keep).bookmarks, c).bookmarks

\* the readers that were shown the store during the recorded event
Readers == {last.seen[i].reader : i \in 1..Len(last.seen)}

\* C7 as stated: updateStickyGlobalBookmarks returns true exactly when the
\* store after the batch differs from the store before it.
C7_UpdatedIffStoreDiffers ==
    last.op = "sticky" => (last.updated <=> last.post # last.pre)

\* C7 amended: updateStickyGlobalBookmarks returns true whenever the store
\* after the batch differs from the store before it, and the handler saves
\* and notifies exactly when it returned true; it also returns true when the
\* lines it wrote cancel out and the store is what it was.
C7_UpdatedWhenStoreDiffers ==
    last.op = "sticky" =>
        /\ last.post # last.pre => last.updated
        /\ last.updated <=> "save" \in Readers
        /\ last.updated <=> "onDidChange" \in Readers
        /\ last.updated => saved = save(files)

C7_Witness ==
    /\ last.op = "sticky"
    /\ last.updated
    /\ last.post = last.pre
    /\ "save" \in Readers

C10_EmptyList ==
    (nav.called /\ nav.bookmarks = << >>) =>
        nav.result = IF nav.navigateThroughAllFiles
                     THEN Number(NO_BOOKMARKS)
                     ELSE nav.currentPosition

C10_Witness ==
    /\ nav.called
    /\ nav.bookmarks = << >>
    /\ ~nav.navigateThroughAllFiles
    /\ nav.direction = "Backward"
    /\ ~nav.wrapNavigation
    /\ nav.currentPosition = Position(2, 1)
    /\ nav.result = Position(2, 1)

\* the lines of the markers beyond the cursor line in the direction of the
\* recorded call of nextBookmark
BeyondCursor ==
    {nav.bookmarks[i].line : i \in {j \in 1..Len(nav.bookmarks) :
        IF nav.direction = "Forward"
        THEN nav.bookmarks[j].line > nav.currentPosition.line
        ELSE nav.bookmarks[j].line < nav.currentPosition.line}}

\* the line of BeyondCursor nearest to the cursor
NearestBeyond ==
    IF nav.direction = "Forward"
    THEN CHOOSE l \in BeyondCursor : \A m \in BeyondCursor : l <= m
    ELSE CHOOSE l \in BeyondCursor : \A m \in BeyondCursor : l >= m

\* C11: when a marker of the sorted list lies strictly beyond the cursor line
\* in the requested direction, nextBookmark returns a position, never a
\* sentinel: the line nearest to the cursor among those markers and the
\* column of a marker of that line, whatever navigateThroughAllFiles and
\* wrapNavigation are.
C11_NearestBeyondCursor ==
    (nav.called /\ BeyondCursor # {}) =>
        /\ ~nav.result.isNumber
        /\ nav.result.line = NearestBeyond
        /\ \E i \in 1..Len(nav.bookmarks) :
               /\ nav.bookmarks[i].line = nav.result.line
               /\ nav.bookmarks[i].column = nav.result.character

C11_Witness ==
    /\ nav.called
    /\ nav.direction = "Backward"
    /\ nav.navigateThroughAllFiles
    /\ LineSeq(nav.bookmarks) = <<0, 1, 3>>
    /\ nav.currentPosition.line = 2
    /\ nav.result = Position(1, nav.bookmarks[2].column)

\* C12: on a list that is not empty and has no marker strictly beyond the
\* cursor, nextBookmark returns NO_MORE_BOOKMARKS when navigateThroughAllFiles
\* is set; otherwise, without wrapNavigation, NO_BOOKMARKS_AFTER (Forward) or
\* NO_BOOKMARKS_BEFORE (Backward); otherwise the first (Forward) or the last
\* (Backward) marker of the list.  Each sentinel is returned under its own
\* condition only.
C12_Exhausted ==
    /\ nextBookmark(Markers(<<3, 7, 12>>), Position(12, 0), "Forward", FALSE, TRUE)
           = Position(3, 0)
    /\ nextBookmark(Markers(<<3, 7, 12>>), Position(12, 0), "Forward", FALSE, FALSE)
           = Number(NO_BOOKMARKS_AFTER)
    /\ nav.called =>
         LET n == Len(nav.bookmarks)
             forward == nav.direction = "Forward"
             exhausted == n > 0 /\ BeyondCursor = {}
             wrapTo == IF forward THEN nav.bookmarks[1] ELSE nav.bookmarks[n]
         IN  /\ exhausted =>
                   nav.result =
                       IF nav.navigateThroughAllFiles THEN Number(NO_MORE_BOOKMARKS)
                       ELSE IF ~nav.wrapNavigation
                            THEN IF forward THEN Number(NO_BOOKMARKS_AFTER)
                                 ELSE Number(NO_BOOKMARKS_BEFORE)
                            ELSE Position(wrapTo.line, wrapTo.column)
             /\ nav.result = Number(NO_BOOKMARKS) =>
                   n = 0 /\ nav.navigateThroughAllFiles
             /\ nav.result = Number(NO_MORE_BOOKMARKS) =>
                   exhausted /\ nav.navigateThroughAllFiles
             /\ nav.result = Number(NO_BOOKMARKS_AFTER) =>
                   exhausted /\ forward /\ ~nav.navigateThroughAllFiles /\ ~nav.wrapNavigation
             /\ nav.result = Number(NO_BOOKMARKS_BEFORE) =>
                   exhausted /\ ~forward /\ ~nav.navigateThroughAllFiles /\ ~nav.wrapNavigation

C12_Witness ==
    /\ nav.called
    /\ nav.direction = "Backward"
    /\ ~nav.navigateThroughAllFiles
    /\ nav.wrapNavigation
    /\ LineSeq(nav.bookmarks) = <<1, 2, 3>>
    /\ nav.currentPosition.line = 1
    /\ nav.result = Position(3, nav.bookmarks[3].column)

\* C13 as stated: for every list, cursor, direction and configuration, a
\* position returned by nextBookmark is never on the line of the cursor.
C13_NeverOnCursorLine ==
    (nav.called /\ ~nav.result.isNumber) => nav.result.line # nav.currentPosition.line

\* C13 amended: a position returned by nextBookmark is on the line of the
\* cursor in two cases only: the list is empty and navigateThroughAllFiles is
\* off (the cursor position itself is returned), or wrapNavigation is on,
\* navigateThroughAllFiles is off and every marker of the list is on the
\* cursor line (wrapping returns that marker).  A marker on the cursor line is
\* never chosen by the scan: when the list has a marker on another line, the
\* position returned is not on the cursor line.
C13_OnCursorLineOnlyByWrapOrEmpty ==
    (nav.called /\ ~nav.result.isNumber) =>
        LET onCursorLine == nav.result.line = nav.currentPosition.line
            allOnCursorLine == \A i \in 1..Len(nav.bookmarks) :
                                   nav.bookmarks[i].line = nav.currentPosition.line
        IN  /\ onCursorLine =>
                  /\ ~nav.navigateThroughAllFiles
                  /\ allOnCursorLine
                  /\ (nav.bookmarks # << >> => nav.wrapNavigation)
            /\ ~allOnCursorLine => ~onCursorLine
            /\ BeyondCursor # {} => nav.result.line \in BeyondCursor

C13_Witness ==
    /\ nav.called
    /\ nav.direction = "Forward"
    /\ LineSeq(nav.bookmarks) = <<1, 2>>
    /\ nav.currentPosition.line = 1
    /\ nav.result = Position(2, nav.bookmarks[2].column)

\* the jump took the cross-file branch and the cross-file step named a file
CrossFileTarget ==
    /\ jump.called
    /\ jump.navigateThroughAllFiles
    /\ jump.next.isNumber
    /\ jump.nextDocument # << >>

\* C14: when the scan inside the file is exhausted with
\* navigateThroughAllFiles set and the cross-file step names a target file,
\* jumpToNext shows that file and reveals the position of its first marker
\* (Forward) or of its last marker (Backward), also when the target is not
\* the file that was active when the jump started.
C14_LandsOnTargetMarker ==
    CrossFileTarget =>
        LET target == jump.project[jump.nextDocument]
            marker == IF jump.direction = "Forward" THEN target[1] ELSE target[Len(target)]
        IN  /\ jump.shown = jump.nextDocument
            /\ jump.revealed = revealPosition(marker.line, marker.column)

\* what a call of toggle finds: no marker on the line ("add"), a marker and
\* a label that is not empty ("relabel"), a marker and no label ("remove")
CallKind(c) ==
    IF \A i \in 1..Len(c.pre) : c.pre[i].line # c.line THEN "add"
    ELSE IF c.label # undefined /\ c.label # "" THEN "relabel"
    ELSE "remove"

\* the sequence without its element at index i
Without(s, i) == [j \in 1..(Len(s) - 1) |-> IF j < i THEN s[j] ELSE s[j + 1]]

\* the markers the blob holds for the file of the calls
BlobBookmarks(blob) ==
    IF \E i \in 1..Len(blob.files) : blob.files[i].path = TheFile
    THEN blob.files[CHOOSE i \in 1..Len(blob.files) : blob.files[i].path = TheFile].bookmarks
    ELSE << >>

\* C15: toggle on a line that holds no marker resolves to true and leaves the
\* store with exactly one marker on that line, with the column and the label
\* given (the empty label when none is given), next to the markers it had,
\* which are unchanged; the blob saved holds the same markers.
C15_ToggleAdds ==
    \A k \in 1..Len(tog.calls) :
        LET c == tog.calls[k]
            marker == [line |-> c.line, column |-> c.column,
                       label |-> IF c.label = undefined THEN "" ELSE c.label]
        IN  CallKind(c) = "add" =>
                /\ c.result = TRUE
                /\ Len(c.post) = Len(c.pre) + 1
                /\ Cardinality({i \in 1..Len(c.post) : c.post[i].line = c.line}) = 1
                /\ \E i \in 1..Len(c.post) :
                       c.post[i] = marker /\ Without(c.post, i) = c.pre
                /\ c.postSaved.present
                /\ BlobBookmarks(c.postSaved) = c.post

C15_Witness ==
    /\ Len(tog.calls) = 1
    /\ tog.calls[1].label = undefined
    /\ tog.calls[1].line = 1
    /\ tog.calls[1].column = 1
    /\ LineSeq(tog.calls[1].pre) = <<0, 2>>
    /\ tog.calls[1].post[2] = [line |-> 1, column |-> 1, label |-> ""]
    /\ tog.calls[1].result = TRUE

\* C16: toggle with a label that is not empty, on a line that holds a marker,
\* removes nothing and sets both the label and the column of that marker to
\* the values given.
C16_RelabelSetsLabelAndColumn ==
    \A k \in 1..Len(tog.calls) :
        LET c == tog.calls[k]
        IN  CallKind(c) = "relabel" =>
                /\ Len(c.post) = Len(c.pre)
                /\ \A i \in 1..Len(c.pre) :
                       c.post[i] = IF c.pre[i].line = c.line
                                   THEN [line |-> c.line, column |-> c.column,
                                         label |-> c.label]
                                   ELSE c.pre[i]

\* C17: the value toggle resolves to for a relabel differs from the values
\* it resolves to for an add and for a removal.
C17_RelabelOutcomeDistinct ==
    \A k \in 1..Len(tog.calls), n \in 1..Len(tog.calls) :
        (CallKind(tog.calls[k]) = "relabel" /\ CallKind(tog.calls[n]) \in {"add", "remove"})
            => tog.calls[k].result # tog.calls[n].result

\* C18: toggle with no label or the empty label, on a line that holds a
\* marker (with a label or without), resolves to false and removes exactly
\* that marker; the other markers are unchanged and the blob saved holds the
\* markers that are left.
C18_ToggleRemoves ==
    \A k \in 1..Len(tog.calls) :
        LET c == tog.calls[k]
        IN  CallKind(c) = "remove" =>
                /\ c.result = FALSE
                /\ Len(c.post) = Len(c.pre) - 1
                /\ \A i \in 1..Len(c.post) : c.post[i].line # c.line
                /\ \E i \in 1..Len(c.pre) :
                       c.pre[i].line = c.line /\ Without(c.pre, i) = c.post
                /\ c.postSaved.present
                /\ BlobBookmarks(c.postSaved) = c.post

C18_Witness ==
    /\ Len(tog.calls) = 2
    /\ CallKind(tog.calls[1]) = "relabel"
    /\ tog.calls[2].line = tog.calls[1].line
    /\ tog.calls[2].label = ""
    /\ LineSeq(tog.calls[2].pre) = <<0, 1, 3>>
    /\ tog.calls[2].pre[2].label = "a"
    /\ LineSeq(tog.calls[2].post) = <<0, 3>>
    /\ tog.calls[2].result = FALSE

\* two calls of toggle without a label, one after the other, on a line that
\* held no marker
AddThenRemove ==
    /\ tog.pc = "idle"
    /\ Len(tog.calls) = 2
    /\ tog.calls[1].line = tog.calls[2].line
    /\ tog.calls[1].label \in {undefined, ""}
    /\ tog.calls[2].label \in {undefined, ""}
    /\ CallKind(tog.calls[1]) = "add"

\* C19 as stated: two such calls resolve to true and then to false, and the
\* markers of the file and the saved blob are afterwards what they were
\* before the two calls.
C19_AddThenRemoveRestoresBlob ==
    AddThenRemove =>
        /\ tog.calls[1].result = TRUE
        /\ tog.calls[2].result = FALSE
        /\ tog.calls[2].post = tog.calls[1].pre
        /\ getBookmarksForFile(files, TheFile) = tog.calls[1].pre
        /\ saved = tog.calls[1].preSaved

\* C19 amended: two such calls resolve to true and then to false, the
\* markers of the file are afterwards what they were, and the saved blob is
\* the blob of before when one had been saved; when nothing had been saved
\* yet, a blob now exists and holds the empty list.
C19_AddThenRemoveRestoresMarkers ==
    AddThenRemove =>
        /\ tog.calls[1].result = TRUE
        /\ tog.calls[2].result = FALSE
        /\ tog.calls[2].post = tog.calls[1].pre
        /\ getBookmarksForFile(files, TheFile) = tog.calls[1].pre
        /\ saved = IF tog.calls[1].preSaved.present THEN tog.calls[1].preSaved
                   ELSE [present |-> TRUE, files |-> << >>]

C19_Witness ==
    /\ AddThenRemove
    /\ tog.calls[1].line = 1
    /\ LineSeq(tog.calls[1].pre) = <<0, 2>>
    /\ LineSeq(tog.calls[1].post) = <<0, 1, 2>>
    /\ LineSeq(tog.calls[2].post) = <<0, 2>>
    /\ saved = tog.calls[1].preSaved

\* the store after the loop of bookmarks.toggleGlobal has run to its end with
\* no other event in between
RECURSIVE runToEnd(_, _, _, _, _, _, _)
runToEnd(fs, sv, uri, sels, toggledLines, forceState, label) ==
    LET r == runSelections(fs, sv, uri, sels, toggledLines, forceState, label)
    IN  IF r.suspended
        THEN runToEnd(r.files, IF r.viaToggle THEN save(r.files) ELSE r.saved, uri,
                      r.sels, r.toggledLines, forceState, label)
        ELSE r.files

batchResult(fs, uri, selections, toggleMode) ==
    runToEnd(fs, save(fs), uri, selections, << >>,
             decideForceState(fs, uri, selections, toggleMode), undefined)

Reordered(s) ==
    {[i \in 1..Len(s) |-> s[p[i]]] : p \in Permutations(1..Len(s))}

BatchDone == NoneSuspended /\ files # batch.pre

AllAtOnceDone ==
    BatchDone /\ batch.toggleMode = "allLinesAtOnce" /\ Len(batch.selections) > 1

BatchPre == getBookmarksForFile(batch.pre, batch.uri)

BatchPost == getBookmarksForFile(files, batch.uri)

SelectedLines == {batch.selections[i].line : i \in 1..Len(batch.selections)}

\* the markers of the store before the batch, on every selected line or not
AllSelectedMarked == SelectedLines \subseteq Range(LineSeq(BatchPre))

\* what the batch does to the lines: every selected line is cleared when all
\* of them held a marker, else exactly the selected lines lacking a marker
\* gain one and the markers of before are still there, unchanged
BatchEffect ==
    /\ files = batchResult(batch.pre, batch.uri, batch.selections, batch.toggleMode)
    /\ IF AllSelectedMarked
       THEN BatchPost = SelectSeq(BatchPre, LAMBDA m : m.line \notin SelectedLines)
       ELSE /\ Range(LineSeq(BatchPost)) = Range(LineSeq(BatchPre)) \cup SelectedLines
            /\ Len(BatchPost) = Cardinality(Range(LineSeq(BatchPost)))
            /\ Range(BatchPre) \subseteq Range(BatchPost)

\* the example of the specification: markers on 1 and 2, batch on 1, 2, 3
BatchExample ==
    LET fs == <<[path |-> TheFile,
                 bookmarks |-> <<[line |-> 1, column |-> 1, label |-> "a"],
                                 [line |-> 2, column |-> 0, label |-> ""]>>]>>
        sels == <<[line |-> 1, character |-> 0], [line |-> 2, character |-> 0],
                  [line |-> 3, character |-> 0]>>
    IN  \A uri \in RawPaths : \A order \in Reordered(sels) :
            batchResult(fs, uri, order, "allLinesAtOnce") =
                <<[path |-> TheFile,
                   bookmarks |-> <<[line |-> 1, column |-> 1, label |-> "a"],
                                   [line |-> 2, column |-> 0, label |-> ""],
                                   [line |-> 3, column |-> 0, label |-> ""]>>]>>

\* C20: under allLinesAtOnce with more than one selection the batch is
\* decided from the store of before the first mutation: when every selected
\* line held a marker they are all removed, else a marker is added on exactly
\* the selected lines lacking one and every marker of before is untouched;
\* the resulting store is the same for every order of the selections.
C20_AllAtOnceOrderFree ==
    AllAtOnceDone =>
        /\ BatchEffect
        /\ BatchExample
        /\ \A order \in Reordered(batch.selections) :
               batchResult(batch.pre, batch.uri, order, batch.toggleMode) = files

\* C20 amended: the same decision and effect; the lines of the resulting
\* store are the same for every order of the selections, and a marker added
\* on a line takes the column of the first selection on that line, so that
\* only the column of an added marker can depend on the order.
C20_AllAtOnceLinesOrderFree ==
    AllAtOnceDone =>
        /\ BatchEffect
        /\ BatchExample
        /\ \A order \in Reordered(batch.selections) :
               LET other == getBookmarksForFile(
                                batchResult(batch.pre, batch.uri, order, batch.toggleMode),
                                batch.uri)
               IN  /\ LineSeq(other) = LineSeq(BatchPost)
                   /\ \A k \in 1..Len(other) :
                          \/ other[k] = BatchPost[k]
                          \/ /\ other[k].line \notin Range(LineSeq(BatchPre))
                             /\ other[k].label = BatchPost[k].label
        /\ \A k \in 1..Len(BatchPost) :
               BatchPost[k] \notin Range(BatchPre) =>
                   \E i \in 1..Len(batch.selections) :
                       /\ batch.selections[i].line = BatchPost[k].line
                       /\ batch.selections[i].character = BatchPost[k].column
                       /\ BatchPost[k].label = ""
                       /\ \A j \in 1..(i - 1) :
                              batch.selections[j].line # BatchPost[k].line

\* markers on 0 and 1, batch on 1 (another column) and 2: only 2 is added
C20_Witness ==
    /\ AllAtOnceDone
    /\ LineSeq(BatchPre) = <<0, 1>>
    /\ batch.selections = <<[line |-> 1, character |-> 0], [line |-> 2, character |-> 1]>>
    /\ BatchPost = Append(BatchPre, [line |-> 2, column |-> 1, label |-> ""])

IndependentDone == BatchDone /\ batch.toggleMode # "allLinesAtOnce"

\* C21: under the independent policy each distinct selected line is toggled
\* once against the store of that moment, so the marked lines after the batch
\* are the symmetric difference of the marked lines before it and the
\* selected lines; markers on lines that were not selected are untouched.
C21_IndependentSymmetricDifference ==
    IndependentDone =>
        LET before == Range(LineSeq(BatchPre))
            after == Range(LineSeq(BatchPost))
        IN  /\ after = (before \ SelectedLines) \cup (SelectedLines \ before)
            /\ Len(BatchPost) = Cardinality(after)
            /\ \A m \in Range(BatchPre) : m.line \notin SelectedLines => m \in Range(BatchPost)
            /\ files = batchResult(batch.pre, batch.uri, batch.selections, batch.toggleMode)

\* markers on 0 and 1, cursors on 1 and 2: 1 is removed and 2 is added
C21_Witness ==
    /\ IndependentDone
    /\ LineSeq(BatchPre) = <<0, 1>>
    /\ batch.selections = <<[line |-> 1, character |-> 0], [line |-> 2, character |-> 1]>>
    /\ LineSeq(BatchPost) = <<0, 2>>

\* C22: addBookmark called for a line that already holds a marker changes
\* nothing and reports the conflict, so that no line ever holds two markers;
\* called for a free line it inserts the marker and the list is sorted.
C22_AddBookmarkRejectsMarkedLine ==
    invocation.op = "addBookmark" =>
        LET marker == [line |-> invocation.line, column |-> invocation.column,
                       label |-> IF invocation.label = undefined THEN ""
                                 ELSE invocation.label]
        IN  /\ Len(invocation.post) = Cardinality(Range(LineSeq(invocation.post)))
            /\ IF invocation.line \in Range(LineSeq(invocation.pre))
               THEN /\ invocation.post = invocation.pre
                    /\ invocation.result # undefined
               ELSE invocation.post = sortByLine(Append(invocation.pre, marker))

\* the value JSON.stringify is given for a registry: its files that hold a
\* marker, in registry order, with their normalised paths
Serialization(fs) ==
    LET kept == SelectSeq(fs, LAMBDA f : Len(f.bookmarks) > 0)
    IN  [present |-> TRUE,
         files |-> [i \in 1..Len(kept) |->
                       [path |-> normalizePath(kept[i].path), bookmarks |-> kept[i].bookmarks]]]

\* C23: whenever the global commands have run to completion the blob under
\* globalBookmarks is the serialization of the registry restricted to its
\* files with a marker; as long as nothing was ever saved, no command has
\* mutated the registry and it holds no marker.
C23_SavedAfterEveryMutation ==
    cmd.pc = "idle" =>
        IF saved.present THEN saved = Serialization(files)
        ELSE files = << >>

\* a file whose last marker was removed stays in the registry and is left
\* out of the blob
C23_Witness ==
    /\ cmd.pc = "idle"
    /\ Len(files) = 1
    /\ files[1].bookmarks = << >>
    /\ saved = [present |-> TRUE, files |-> << >>]

\* a blob that is not the text of a list of files with their markers
Malformed(blob) ==
    \/ blobKind(blob) \in {"unparsable", "notArray"}
    \/ /\ blobKind(blob) = "array"
       /\ \E i \in 1..Len(blob.files) : entryTag(blob.files[i]) # "file"

\* C24: load does not throw on a malformed blob (text that does not parse,
\* an array with an entry that lacks a path or a list of bookmarks) and
\* leaves the registry empty.
C24_LoadDiscardsMalformedBlob ==
    (invocation.op = "load" /\ Malformed(invocation.blob)) =>
        /\ ~invocation.threw
        /\ files = << >>

\* C25: loadBookmarks neither throws nor rejects on a malformed blob, from
\* the workspace state or from .vscode/bookmarks.json, and returns a
\* controller with an empty store.
C25_LoadBookmarksDiscardsMalformedBlob ==
    (invocation.op = "loadBookmarks" /\ Malformed(invocation.blob)) =>
        /\ ~invocation.rejected
        /\ invocation.files = << >>

\* C26: for a file whose document has n lines, listBookmarks removes from the
\* store exactly the markers whose line is n or more, keeps the others, and
\* returns one item per kept marker and none for a removed one.
C26_ListBookmarksPrunesInvalid ==
    (invocation.op = "listBookmarks" /\ invocation.exists) =>
        LET kept == SelectSeq(invocation.pre, LAMBDA b : b.line < invocation.lineCount)
        IN  /\ invocation.post = kept
            /\ Len(invocation.items) = Len(kept)
            /\ \A k \in 1..Len(kept) : invocation.items[k] = quickPickItem(kept[k])
            /\ invocation.listed = (invocation.pre # << >>)

\* markers on 0, 2 and 3 in a document of two lines: 2 and 3 are removed
C26_Witness ==
    /\ invocation.op = "listBookmarks"
    /\ invocation.exists
    /\ invocation.lineCount = 2
    /\ LineSeq(invocation.pre) = <<0, 2, 3>>
    /\ LineSeq(invocation.post) = <<0>>
    /\ Len(invocation.items) = 1

Listed == invocation.op \in {"listGlobals", "getChildren"}

\* the markers of a registry with the path of their file, file after file
RECURSIVE AllMarkers(_)
AllMarkers(fs) ==
    IF fs = << >> THEN << >>
    ELSE [i \in 1..Len(Head(fs).bookmarks) |->
             [path |-> Head(fs).path, bookmark |-> Head(fs).bookmarks[i]]]
         \o AllMarkers(Tail(fs))

\* a marker the listing looks up in its document and finds past the end
DiscoveredPastEnd(m) ==
    /\ invocation.documents[m.path] > 0
    /\ m.bookmark.line >= invocation.documents[m.path]
    /\ invocation.op = "getChildren" => m.bookmark.label = ""

\* C27: the global listing and the global tree prune every marker they find
\* to point past the end of its document: none is in the store afterwards.
C27_GlobalListingPrunes ==
    Listed =>
        \A k \in 1..Len(AllMarkers(files)) : ~DiscoveredPastEnd(AllMarkers(files)[k])

\* C28: when a document cannot be opened or a line cannot be read, the
\* listing and the tree still give one item for every marker of every file,
\* with the label Line N, N the line plus one, for a marker without a label,
\* and they do not raise.
C28_ListingFallsBack ==
    Listed =>
        LET markers == AllMarkers(invocation.pre)
        IN  /\ ~invocation.threw
            /\ Len(invocation.items) = Len(markers)
            /\ \A k \in 1..Len(markers) :
                   LET m == markers[k]
                       item == invocation.items[k]
                       unread == \/ invocation.documents[m.path] = 0
                                 \/ m.bookmark.line >= invocation.documents[m.path]
                   IN  /\ item.detail = m.path
                       /\ item.line = m.bookmark.line + 1
                       /\ item.column = m.bookmark.column + 1
                       /\ (unread /\ m.bookmark.label = "") =>
                              item.label = [kind |-> "fallback", n |-> m.bookmark.line + 1,
                                            label |-> ""]
                       /\ m.bookmark.label # "" => item.label.label = m.bookmark.label

\* the first file cannot be opened, the second has one line and a marker on
\* its second line: both listings show Line 2 for it
C28_Witness ==
    /\ Listed
    /\ invocation.documents[TheFile] = 0
    /\ invocation.documents[OtherFile] = 1
    /\ LineSeq(invocation.pre[1].bookmarks) = <<0, 3>>
    /\ invocation.pre[2].bookmarks = <<[line |-> 1, column |-> 0, label |-> ""]>>
    /\ Len(invocation.items) = 3
    /\ invocation.items[1].label.kind = "fallback"
    /\ invocation.items[3].label = [kind |-> "fallback", n |-> 2, label |-> ""]

\* a step that ends an editGlobalLabel whose input box was open
EditResumed == pendingEdit.pc = "input" /\ pendingEdit'.pc = "idle"

\* the index resolved before the input box still points into the file
EditIndexValid ==
    \/ pendingEdit.orphan
    \/ /\ fileIndex(files, pendingEdit.path) > 0
       /\ pendingEdit.index <= Len(files[fileIndex(files, pendingEdit.path)].bookmarks)

\* C29: editGlobalLabel resumed after the store was mutated under its input
\* box (marker removed, file cleared, lines shifted by an edit) does not
\* throw, changes the line of no marker and relabels no marker other than
\* the one that was selected.
C29_EditLabelToleratesMutation ==
    [][EditResumed =>
           /\ EditIndexValid
           /\ Len(files') = Len(files)
           /\ \A i \in 1..Len(files) :
                  /\ LineSeq(files'[i].bookmarks) = LineSeq(files[i].bookmarks)
                  /\ \A k \in 1..Len(files[i].bookmarks) :
                         files'[i].bookmarks[k] # files[i].bookmarks[k] =>
                             files[i].bookmarks[k].line = pendingEdit.line]_vars

\* C30: updateStickyGlobalBookmarks, which does not sort, applied to a
\* strictly ascending list leaves it strictly ascending by line, with no
\* line below 0, for every batch of changes and either deletion policy.
C30_StickyKeepsOrder ==
    last.op = "sticky" =>
        /\ \A i \in 1..(Len(last.post) - 1) : last.post[i].line < last.post[i + 1].line
        /\ \A i \in 1..Len(last.post) : last.post[i].line >= 0
        /\ getBookmarksForFile(files, TheFile) = last.post

\* two changes in one event, markers kept on deletion, three markers moved
C30_Witness ==
    /\ last.op = "sticky"
    /\ last.keep
    /\ Len(last.changes) = 2
    /\ isDel(last.changes[1])
    /\ isAdd(last.changes[2])
    /\ Len(last.pre) = 3
    /\ Len(last.post) = 3
    /\ \A i \in 1..3 : last.post[i].line # last.pre[i].line

\* the number of elements of s equal to m
Count(s, m) == Cardinality({i \in 1..Len(s) : s[i] = m})

\* the view jumpToNext builds for the active file in the current state
MergedView ==
    getActiveFileBookmarks(jump.project[jump.activeFile], files, jump.activeFile)

\* C31: the view getActiveFileBookmarks builds for the active file is
\* ascending by line and holds the project markers and the global markers
\* of that file, each as often as the two lists hold it, and nothing else;
\* the step that builds it leaves the project lists and the global registry
\* as they were, order included.
C31_MergedViewSortedAndComplete ==
    [][(~jump.called /\ jump'.called) =>
          LET own == jump.project[jump.activeFile]
              global == getBookmarksForFile(files, jump.activeFile)
          IN  /\ \A i \in 1..(Len(MergedView) - 1) :
                     MergedView[i].line <= MergedView[i + 1].line
              /\ Len(MergedView) = Len(own) + Len(global)
              /\ \A m \in Range(MergedView) \cup Range(own) \cup Range(global) :
                     Count(MergedView, m) = Count(own, m) + Count(global, m)
              /\ files' = files
              /\ jump'.project = jump.project]_vars

\* a jump over two project markers and a global marker that lies between
\* them
C31_Witness ==
    /\ jump.called
    /\ LineSeq(jump.project[jump.activeFile]) = <<1, 3>>
    /\ LineSeq(getBookmarksForFile(files, jump.activeFile)) = <<2>>
    /\ LineSeq(MergedView) = <<1, 2, 3>>

\* the lines of the view that lie beyond the cursor in the direction of the
\* jump
AheadOfCursor ==
    {l \in LinesOf(MergedView) :
        IF jump.direction = "Forward" THEN l > jump.currentPosition.line
        ELSE l < jump.currentPosition.line}

\* the line the cycle must reach next: the nearest marked line beyond the
\* cursor, or the first (Forward) or last (Backward) marked line when there
\* is none
NextInCycle ==
    LET from == IF AheadOfCursor = {} THEN LinesOf(MergedView) ELSE AheadOfCursor
    IN  IF jump.direction = "Forward"
        THEN CHOOSE l \in from : \A k \in from : l <= k
        ELSE CHOOSE l \in from : \A k \in from : l >= k

\* the jump has just revealed a marker on line l
Visits(l) == jump.called /\ jump.revealed.some /\ jump.revealed.line = l

\* C32: with navigateThroughAllFiles false and wrapNavigation true, each
\* jump over a non-empty view reveals the nearest marked line beyond the
\* cursor in the direction of the jump, or the first marked line (Forward)
\* or the last one (Backward) when none lies beyond; with the cursor moved
\* to each revealed position, every marked line of the view is revealed
\* again and again, from every starting cursor.
C32_JumpCyclesThroughAllMarkers ==
    /\ [][(~jump.called /\ jump'.called /\ MergedView # << >>) =>
              /\ jump'.revealed.some
              /\ jump'.revealed.line = NextInCycle]_vars
    /\ \A l \in Lines : []<>(l \in LinesOf(MergedView) => Visits(l))

\* a forward jump from the last of three marked lines, one of them a global
\* marker, where the cursor had been put by an earlier jump, back to the
\* first
C32_Witness ==
    /\ jump.called
    /\ jump.direction = "Forward"
    /\ LineSeq(jump.project[jump.activeFile]) = <<1, 3>>
    /\ LineSeq(getBookmarksForFile(files, jump.activeFile)) = <<2>>
    /\ jump.project[jump.activeFile][2].column = 1
    /\ jump.currentPosition = Position(3, 1)
    /\ jump.revealed = revealPosition(1, jump.project[jump.activeFile][1].column)

\* C33: the promise listBookmarks returns is settled for every file, also
\* for one that exists and whose document cannot be opened, so that
\* listFromAllFiles shows its picker.
C33_ListBookmarksAlwaysSettles ==
    invocation.op = "listFromAllFiles" =>
        /\ \A i \in 1..Len(invocation.promisses) : invocation.promisses[i].settled
        /\ invocation.shown

\* C34: _bookmarks.deleteGlobalBookmark, invoked on a node of the tree,
\* never increases the number of global markers: when the line of the node
\* holds no marker any more it changes nothing.
C34_DeleteNeverAddsMarker ==
    [][(\E node \in (IF invocation.op = "tree" THEN invocation.nodes ELSE {}) :
            DeleteNode(node)) =>
           countBookmarks(files') <= countBookmarks(files)]_vars

\* the label toggleGlobalLabeled runs its loop with: the suggestion when
\* there is one and it is to be used, else the answer to the input box
LabelOfRun ==
    IF invocation.suggestion # "" /\ invocation.useSelectionWhenAvailable
    THEN invocation.suggestion
    ELSE invocation.answer

\* the registry the command leaves when nothing else runs before it ends
labeledResult ==
    runToEnd(invocation.pre, save(invocation.pre), invocation.uri, invocation.selections,
             << >>, undefined, LabelOfRun)

LabeledDone == NoneSuspended /\ files # invocation.pre

\* C35: toggleGlobalLabeled run to its end with a label L that is not empty
\* and nothing in between leaves, on every distinct selected line, exactly
\* one global marker, labelled L, and every line marked before is still
\* marked: the markers of the lines not selected are as they were.
C35_LabeledMarksEverySelectedLine ==
    (invocation.op = "toggleGlobalLabeled" /\ LabelOfRun \in Labels \ {""}) =>
        LET pre == getBookmarksForFile(invocation.pre, invocation.uri)
            post == getBookmarksForFile(labeledResult, invocation.uri)
            selected == {invocation.selections[i].line :
                            i \in 1..Len(invocation.selections)}
        IN  /\ \A line \in selected :
                   /\ Cardinality({i \in 1..Len(post) : post[i].line = line}) = 1
                   /\ \A i \in 1..Len(post) : post[i].line = line => post[i].label = LabelOfRun
            /\ Range(LineSeq(post)) = Range(LineSeq(pre)) \cup selected
            /\ Len(post) = Cardinality(Range(LineSeq(post)))
            /\ \A m \in Range(pre) : m.line \notin selected => m \in Range(post)
            /\ LabeledDone => files = labeledResult

\* markers on 0 (labelled) and 1, cursors on 1 and 2, the label typed in the
\* input box: 1 is relabelled, 2 is added with the label, 0 is as it was
C35_Witness ==
    /\ invocation.op = "toggleGlobalLabeled"
    /\ LabeledDone
    /\ invocation.suggestion = ""
    /\ invocation.answer = "a"
    /\ LineSeq(getBookmarksForFile(invocation.pre, invocation.uri)) = <<0, 1>>
    /\ getBookmarksForFile(invocation.pre, invocation.uri)[2].label = ""
    /\ invocation.selections = <<[line |-> 1, character |-> 0], [line |-> 2, character |-> 1]>>
    /\ LineSeq(getBookmarksForFile(files, invocation.uri)) = <<0, 1, 2>>
    /\ getBookmarksForFile(files, invocation.uri)[2].label = "a"
    /\ getBookmarksForFile(files, invocation.uri)[3].label = "a"

\* C36: shrinkSelection moves the boundary of the selection only to a marker
\* whose line lies between the first and the last line of the selection, and
\* leaves the selection as it is when no marker lies on those lines, for
\* every value of navigateThroughAllFiles and wrapNavigation and both
\* orientations of the selection.
C36_ShrinkStaysInsideSelection ==
    invocation.op = "shrinkSelection" =>
        LET inside == {l \in LinesOf(invocation.bookmarks) :
                          /\ invocation.selection.start.line <= l
                          /\ l <= invocation.selection.end.line}
        IN  /\ invocation.result.shrunk => invocation.result.to.line \in inside
            /\ inside = {} => ~invocation.result.shrunk

ControllerIds(r) == {r.controllers[i].id : i \in 1..Len(r.controllers)}

\* the step is a reload of the project state
Reloaded == registry'.reloads > registry.reloads

\* C37: a reload of the project state (saveBookmarksInProject switched from
\* false to true and the load chosen) replaces the controllers by new ones
\* and leaves activeController one of them, with or without an active text
\* editor; and whenever there is a controller, activeController is one of
\* the controllers.
C37_ActiveControllerIsAController ==
    /\ [][Reloaded =>
              /\ ControllerIds(registry') \cap ControllerIds(registry) = {}
              /\ registry'.activeController \in ControllerIds(registry')]_vars
    /\ [](Len(registry.controllers) > 0 =>
              registry.activeController \in ControllerIds(registry))

\* the entries of the registry fs other than that of the document uri
OtherEntries(fs, uri) ==
    {[index |-> i, file |-> fs[i]] : i \in {k \in 1..Len(fs) : fs[k].path # normalizePath(uri)}}

\* C38: an event that changes the global markers of a document (toggle,
\* batch toggle, relabel, removal, clearFile, sticky adjustment) leaves the
\* global marker list of every other document and the project registry as
\* they were.
C38_GlobalMutationTouchesOneFile ==
    [][\A uri \in ScopePaths :
           GlobalMutation(uri) =>
               /\ OtherEntries(files', uri) = OtherEntries(files, uri)
               /\ registry' = registry]_vars

\* the markers of one document gone, its entry left behind, while the other
\* document and the project keep theirs
C38_Witness ==
    /\ \E i \in 1..Len(files) : files[i].path = TheFile /\ files[i].bookmarks = << >>
    /\ \E i \in 1..Len(files) : files[i].path = OtherFile /\ Len(files[i].bookmarks) = 1
    /\ Len(registry.controllers) = 1
    /\ Len(registry.controllers[1].bookmarks) = 1

\* the files of the registry fs that hold a marker, in registry order
WithMarkers(fs) == SelectSeq(fs, LAMBDA f : Len(f.bookmarks) > 0)

====
